---- MODULE Spec2Model ----
(***************************************************************************)
(* Voice-agent service (services/voice-agent): the entrypoint of one call  *)
(* (identity resolution, config load, session lifecycle), the background   *)
(* contact-processing tasks it launches, and the pure merge of extracted   *)
(* contact information into conversation metadata.                         *)
(***************************************************************************)
EXTENDS Integers, Sequences, FiniteSets, TLC

(***************************************************************************)
(* Python values.  A mapping is a function over its possible keys; a key   *)
(* that is not in the mapping holds MISSING (what dict.get returns as      *)
(* None, kept apart from a stored null so that a copy stays a copy).       *)
(***************************************************************************)
MISSING == "<missing>"
NONE == "<None>"
EMPTY == ""

\* Python truthiness of a string-or-None value
Truthy(v) == v \notin {MISSING, NONE, EMPTY}

\* dict.get(k): a missing key reads as None
DictGet(v) == IF v = MISSING THEN NONE ELSE v

\* Python `a or b`
PyOr(a, b) == IF Truthy(a) THEN a ELSE b

ContactFields == {"email", "phone", "first_name", "last_name", "company_name"}

(***************************************************************************)
(* contact_extractor.merge_contact_info                                    *)
(***************************************************************************)
\* one `if extracted.f and not merged.get(f): merged[f] = extracted.f`
merge_field(merged, extracted, f) ==
    IF Truthy(extracted[f]) /\ ~Truthy(DictGet(merged[f]))
    THEN [merged EXCEPT ![f] = extracted[f]]
    ELSE merged

\* bug variant: the guard on the existing value is dropped (overwrites)
merge_contact_info_overwrite(existing, extracted) ==
    [f \in DOMAIN existing |->
        IF f \in ContactFields /\ Truthy(extracted[f]) THEN extracted[f] ELSE existing[f]]

\* bug variant: the email guard tests that a phone is already known
merge_contact_info_wrongkey(existing, extracted) ==
    LET m1 == IF Truthy(extracted["email"]) /\ Truthy(DictGet(existing["phone"]))
              THEN [existing EXCEPT !["email"] = extracted["email"]]
              ELSE existing
        m2 == merge_field(m1, extracted, "phone")
        m3 == merge_field(m2, extracted, "first_name")
        m4 == merge_field(m3, extracted, "last_name")
    IN  merge_field(m4, extracted, "company_name")

merge_contact_info(existing, extracted) ==
    LET m1 == merge_field(existing, extracted, "email")
        m2 == merge_field(m1, extracted, "phone")
        m3 == merge_field(m2, extracted, "first_name")
        m4 == merge_field(m3, extracted, "last_name")
    IN  merge_field(m4, extracted, "company_name")

\* ExtractedContactInfo.has_contact_info
has_contact_info(extracted) == \E f \in ContactFields : Truthy(extracted[f])

(***************************************************************************)
(* Job and room metadata as the entrypoint receives them: a record         *)
(*   kind   "absent"    None or an empty string                            *)
(*          "malformed" a string that is not JSON                          *)
(*          "json"      a JSON string                                      *)
(*          "dict"      an already-decoded mapping                         *)
(*   is_map whether the (decoded) value is a mapping; a JSON list, number  *)
(*          or null is not                                                 *)
(*   map    the mapping, a function over IdKeys (MISSING for an absent key)*)
(***************************************************************************)
IdKeys == {"agentId", "agent_id", "conversationId", "conversation_id",
           "userId", "user_id", "companyId", "company_id"}
EmptyMap == [k \in IdKeys |-> MISSING]
AbsentRaw == [kind |-> "absent", is_map |-> FALSE, map |-> EmptyMap]
MalformedRaw == [kind |-> "malformed", is_map |-> FALSE, map |-> EmptyMap]
NotMapRaw == [kind |-> "json", is_map |-> FALSE, map |-> EmptyMap]
JsonRaw(m) == [kind |-> "json", is_map |-> TRUE, map |-> m]
DictRaw(m) == [kind |-> "dict", is_map |-> TRUE, map |-> m]

\* isinstance(raw, str)
IsStr(raw) == raw.kind \in {"malformed", "json"}
\* truthiness of the raw metadata object (None, "" and {} are falsy)
RawTruthy(raw) == raw.kind # "absent" /\ ~(raw.kind = "dict" /\ raw.map = EmptyMap)
\* a decoded value: [is_map, map]
Decoded(raw) == [raised |-> FALSE, is_map |-> raw.is_map, map |-> raw.map]
DecodedEmpty == [raised |-> FALSE, is_map |-> TRUE, map |-> EmptyMap]

\* json.loads: raises on a string that is not JSON
json_loads(raw) ==
    IF raw.kind = "malformed" THEN [raised |-> TRUE, is_map |-> FALSE, map |-> EmptyMap]
    ELSE Decoded(raw)

\* agent.py 58-63: metadata = ctx.job.metadata or {}; decode a string, {} on failure
job_metadata(raw) ==
    IF ~RawTruthy(raw) THEN DecodedEmpty
    ELSE IF IsStr(raw)
         THEN LET r == json_loads(raw) IN IF r.raised THEN DecodedEmpty ELSE r
         ELSE Decoded(raw)

\* metadata.get(camel) or metadata.get(snake)
GetEither(m, camel, snake) == PyOr(DictGet(m[camel]), DictGet(m[snake]))

(***************************************************************************)
(* The room: its local metadata, the metadata of room.info (has_info tells *)
(* whether the room has an info object), and the answer of the             *)
(* room-management API: kind "error" (the request raises) or "rooms" (the  *)
(* room of that name, with its metadata, absent when none is listed).      *)
(***************************************************************************)
\* agent.py 74-99: local metadata, else room.info.metadata, else list_rooms
room_metadata_raw(room) ==
    LET r1 == room.metadata
        r2 == IF ~RawTruthy(r1) /\ room.has_info THEN room.info ELSE r1
    IN  IF RawTruthy(r2) THEN r2
        ELSE IF room.api.kind = "rooms" /\ RawTruthy(room.api.metadata)
             THEN room.api.metadata
             ELSE r2    \* API error (caught, 98-99), no room listed, or no metadata

PREFIX == "conversation:"
\* ctx.room.name.startswith("conversation:"); a name is a sequence of tokens
StartsWithPrefix(name) == Len(name) > 0 /\ name[1] = PREFIX
\* ctx.room.name.replace("conversation:", ""): every occurrence is removed
RemovePrefix(name) ==
    LET rest == SelectSeq(name, LAMBDA t : t # PREFIX)
    IN  IF rest = <<>> THEN EMPTY ELSE rest[1]

Ids(a, c, u) == [agent_id |-> a, conversation_id |-> c, user_id |-> u]

\* agent.py 66-69: the ids of the job metadata (None when it is no mapping)
job_ids(md) ==
    IF md.is_map
    THEN Ids(GetEither(md.map, "agentId", "agent_id"),
             GetEither(md.map, "conversationId", "conversation_id"),
             GetEither(md.map, "userId", "user_id"))
    ELSE Ids(NONE, NONE, NONE)

\* agent.py 101-110: the ids after reading the room metadata; json.loads may raise
room_fallback(room, ids) ==
    LET raw == room_metadata_raw(room) IN
    IF ~RawTruthy(raw) THEN [raised |-> FALSE, ids |-> ids]
    ELSE LET r == IF IsStr(raw) THEN json_loads(raw) ELSE Decoded(raw)
         IN  IF r.raised THEN [raised |-> TRUE, ids |-> ids]
             ELSE IF r.is_map
                  THEN [raised |-> FALSE, ids |->
                          Ids(PyOr(GetEither(r.map, "agentId", "agent_id"), ids.agent_id),
                              PyOr(GetEither(r.map, "conversationId", "conversation_id"),
                                   ids.conversation_id),
                              PyOr(GetEither(r.map, "userId", "user_id"), ids.user_id))]
                  ELSE [raised |-> FALSE, ids |-> ids]

\* agent.py 114-126: room-name convention, company id, the "unknown" default
finish_identity(raised, md, ids, name) ==
    [raised |-> raised,
     agent_id |-> IF ~Truthy(ids.agent_id) THEN "unknown" ELSE ids.agent_id,
     conversation_id |-> IF ~Truthy(ids.conversation_id) /\ StartsWithPrefix(name)
                         THEN RemovePrefix(name) ELSE ids.conversation_id,
     user_id |-> ids.user_id,
     company_id |-> IF md.is_map THEN GetEither(md.map, "companyId", "company_id")
                    ELSE NONE]

\* bug variant: the room fallback runs without the enclosing try/except of 73-112
resolve_identity_unguarded(job, room, name) ==
    LET md == job_metadata(job)
        ids0 == job_ids(md)
        fb == IF ~Truthy(ids0.agent_id) THEN room_fallback(room, ids0)
              ELSE [raised |-> FALSE, ids |-> ids0]
    IN  finish_identity(fb.raised, md, fb.ids, name)

\* agent.py 52-126: identity resolution of the entrypoint
resolve_identity(job, room, name) ==
    LET md == job_metadata(job)
        ids0 == job_ids(md)
        \* 72-112: only when the job gave no agent id; an exception is caught (111)
        fb == IF ~Truthy(ids0.agent_id) THEN room_fallback(room, ids0)
              ELSE [raised |-> FALSE, ids |-> ids0]
    IN  finish_identity(md.raised, md, fb.ids, name)

(***************************************************************************)
(* State.                                                                  *)
(*   mergeRun  one application of merge_contact_info and its repetition    *)
(*   extractRun  one model response and what extract_contact_info_llm      *)
(*             returns for it                                              *)
(*   calls     per call (job): the inputs and the locals of entrypoint     *)
(*   tasks     the contact-processing tasks launched so far, in order      *)
(*   convMeta  conversation service: the metadata of each conversation     *)
(*   convContact  conversation service: the contact_id of each conversation*)
(*   contacts  contact store: the rows of table contacts, id = position    *)
(***************************************************************************)
VARIABLES mergeRun, extractRun, calls, tasks, convMeta, convContact, contacts

vars == <<mergeRun, extractRun, calls, tasks, convMeta, convContact, contacts>>
stores == <<tasks, convMeta, convContact, contacts>>

NumCalls == 2
CallIds == 1..NumCalls

\* a mapping with camelCase keys, or with snake_case keys
IdMap(style, a, c, u, co) ==
    [k \in IdKeys |->
        IF style = "camel"
        THEN CASE k = "agentId" -> a [] k = "conversationId" -> c
               [] k = "userId" -> u [] k = "companyId" -> co [] OTHER -> MISSING
        ELSE CASE k = "agent_id" -> a [] k = "conversation_id" -> c
               [] k = "user_id" -> u [] k = "company_id" -> co [] OTHER -> MISSING]

Room(md, has_info, info, api) ==
    [metadata |-> md, has_info |-> has_info, info |-> info, api |-> api]
ApiError == [kind |-> "error", metadata |-> AbsentRaw]
ApiRooms(md) == [kind |-> "rooms", metadata |-> md]

NoAnswer == [kind |-> "none", company_id |-> NONE]

\* the prompt-related columns of an agent config row; MISSING for an absent key
AgentConfig(name, description, system_prompt) ==
    [name |-> name, description |-> description, system_prompt |-> system_prompt]
DefaultAgentConfig == AgentConfig("Ann", MISSING, "base")

IdleCall ==
    [pc |-> "idle", job |-> AbsentRaw,
     room |-> Room(AbsentRaw, FALSE, AbsentRaw, ApiError), name |-> <<"lobby">>,
     agent_id |-> NONE, conversation_id |-> NONE, user_id |-> NONE, company_id |-> NONE,
     raised |-> "no",
     config |-> "none",            \* "none", "fallback" or "fetched"
     cfg |-> DefaultAgentConfig,   \* the config row the prompt is composed from
     answer |-> NoAnswer,          \* what the config store answered
     kb_enabled |-> FALSE, initial_kb |-> NONE, is_new |-> TRUE,
     probe |-> [kind |-> "none", status |-> 0, body |-> "malformed",
                messages |-> "missing", count |-> 0],  \* the history request's outcome
     prompt |-> <<>>,              \* the sections of the composed prompt, in order
     detector |-> "none",          \* what constructing the turn detector did
     vad |-> NONE,                 \* the vad the session was constructed with
     turn_detection |-> NONE,      \* the turn_detection it was constructed with
     session |-> "none",           \* AgentSession: "none", "open", "closed"
     session_task |-> "none",      \* "running", "ok", "failed", "cancelling", "cancelled"
     shutdown_future |-> "none",   \* "pending", "done", "cancelled"
     disconnect_future |-> "none",
     pending |-> {},               \* asyncio.wait's pending set, as names
     captured |-> FALSE,           \* capture_exception was called
     greeting_task |-> "none",     \* "created", "sleeping", "done"
     replies |-> <<>>,             \* the generate_reply requests made on the session
     disconnect_handler |-> FALSE, \* _on_room_disconnected is registered on the room
     close_calls |-> 0,            \* the invocations of session.aclose
     close |-> [emitted |-> FALSE, raised |-> FALSE],  \* what aclose did
     close_events |-> 0,           \* the close events handled by on_session_close
     status_updates |-> <<>>,      \* the update_conversation_status tasks created
     status_requests |-> <<>>,     \* the PATCH requests issued to the chat service
     chat_configured |-> TRUE,     \* settings.chat_service_url and the token are set
     kb_queries |-> 0, probes |-> 0, turns |-> 0, items |-> 0, saves |-> 0,
     last_item |-> [handled |-> FALSE, present |-> FALSE, role |-> "", text |-> <<>>,
                    launched |-> <<>>],  \* the tasks the last item event created
     last_turn |-> [outcome |-> [kind |-> "none", status |-> 0, body |-> "malformed",
                                 results |-> "missing", items |-> <<>>],
                    message |-> [attr |-> "text_content",
                                 value |-> [kind |-> "str", chars |-> <<"h", "i">>]],
                    queried |-> FALSE,
                    query |-> [kind |-> "null", chars |-> <<>>],  \* the text queried
                    raised |-> FALSE,   \* the retriever raised into the handler
                    added |-> <<>>,     \* the context message added, <<>> for none
                    messages |-> 0]]    \* the messages added to the turn's context

\* a dispatched job whose entrypoint is about to run
NewCall(job, room, name) ==
    [IdleCall EXCEPT !.pc = "resolve", !.job = job, !.room = room, !.name = name]

\* agent.py 52-126
ResolveIdentity(c) ==
    /\ calls[c].pc = "resolve"
    /\ LET r == resolve_identity(calls[c].job, calls[c].room, calls[c].name) IN
       calls' = [calls EXCEPT ![c] =
                    IF r.raised
                    THEN [@ EXCEPT !.pc = "ended", !.raised = "identity"]
                    ELSE [@ EXCEPT !.pc = "load_config",
                                   !.agent_id = r.agent_id,
                                   !.conversation_id = r.conversation_id,
                                   !.user_id = r.user_id,
                                   !.company_id = r.company_id]]
    /\ UNCHANGED <<mergeRun, extractRun, stores>>

(***************************************************************************)
(* supabase_client.get_agent_config: the store answers with an error, no   *)
(* row, or a row; the row's company is checked against the caller's.       *)
(***************************************************************************)
StoreAnswers ==
    {[kind |-> "error", company_id |-> NONE], [kind |-> "empty", company_id |-> NONE]}
        \cup {[kind |-> "row", company_id |-> co] : co \in {"A", "B", NONE}}

\* bug variant: without the defense-in-depth check of lines 63-70
get_agent_config_unchecked(answer, company_id) ==
    IF answer.kind = "error" THEN [raised |-> "config_error", company_id |-> NONE]
    ELSE IF answer.kind = "empty" THEN [raised |-> "config_not_found", company_id |-> NONE]
    ELSE [raised |-> "no", company_id |-> answer.company_id]

\* supabase_client.py 45-87
get_agent_config(answer, company_id) ==
    IF answer.kind = "error" THEN [raised |-> "config_error", company_id |-> NONE]
    ELSE IF answer.kind = "empty" THEN [raised |-> "config_not_found", company_id |-> NONE]
    ELSE IF Truthy(company_id) /\ answer.company_id # company_id
         THEN [raised |-> "config_mismatch", company_id |-> NONE]
         ELSE [raised |-> "no", company_id |-> answer.company_id]

\* agent.py 128-168: fallback config, or fetch; company id from the config
LoadConfig(c) ==
    /\ calls[c].pc = "load_config"
    /\ IF calls[c].agent_id = "unknown"
       THEN calls' = [calls EXCEPT ![c] =
                        [@ EXCEPT !.pc = "initial_kb", !.config = "fallback",
                                  !.kb_enabled = FALSE]]
       ELSE \E answer \in StoreAnswers :
              LET r == get_agent_config(answer, calls[c].company_id)
                  company == PyOr(calls[c].company_id, r.company_id)
              IN  calls' = [calls EXCEPT ![c] =
                     IF r.raised # "no"
                     THEN [@ EXCEPT !.pc = "ended", !.raised = r.raised, !.answer = answer]
                     ELSE [@ EXCEPT !.pc = "initial_kb", !.config = "fetched",
                                    !.answer = answer, !.company_id = company,
                                    !.kb_enabled = Truthy(company)]]
    /\ UNCHANGED <<mergeRun, extractRun, stores>>

\* agent.py 170-182: the initial knowledge-base query, when KB is enabled
InitialKB(c) ==
    /\ calls[c].pc = "initial_kb"
    /\ IF calls[c].kb_enabled
       THEN \E kb \in {NONE, "snippet"} :
              calls' = [calls EXCEPT ![c] =
                          [@ EXCEPT !.pc = "probe", !.initial_kb = kb,
                                    !.kb_queries = @ + 1]]
       ELSE calls' = [calls EXCEPT ![c] = [@ EXCEPT !.pc = "probe"]]
    /\ UNCHANGED <<mergeRun, extractRun, stores>>

\* the outcome of the history request (agent.py 230-237): a failure of the
\* request or a response with a status, a body (not JSON, JSON but no object,
\* an object) and in it the messages (key missing, null, or a list of `count`)
ProbeOutcome(kind, status, body, messages, count) ==
    [kind |-> kind, status |-> status, body |-> body, messages |-> messages,
     count |-> count]
ProbeFailure(kind) == ProbeOutcome(kind, 0, "malformed", "missing", 0)
ProbeResponse(status, body, messages, count) ==
    ProbeOutcome("response", status, body, messages, count)
NoProbe == ProbeFailure("none")

\* agent.py 240: is_new_conversation = len(messages) == 0
history_is_new(count) == count = 0

\* bug variant: the messages of a response are counted whatever its status
probe_is_new_any_status(o) ==
    IF o.kind # "response" \/ o.body # "map" \/ o.messages # "list" THEN TRUE
    ELSE history_is_new(o.count)

\* agent.py 221-243: is_new_conversation after the probe; whatever the
\* request, response.json(), data.get or len raise leaves it True
probe_is_new(o) ==
    IF o.kind # "response" \/ o.status # 200 THEN TRUE
    ELSE IF o.body # "map" THEN TRUE
    ELSE IF o.messages = "missing" THEN history_is_new(0)
    ELSE IF o.messages = "null" THEN TRUE
    ELSE history_is_new(o.count)

\* agent.py 221-243: the history probe, asked for one message (limit 1)
HistoryProbe(c, outcomes) ==
    /\ calls[c].pc = "probe"
    /\ IF Truthy(calls[c].conversation_id)
       THEN \E o \in outcomes :
              calls' = [calls EXCEPT ![c] =
                          [@ EXCEPT !.pc = "pipeline", !.probes = @ + 1, !.probe = o,
                                    !.is_new = probe_is_new(o)]]
       ELSE calls' = [calls EXCEPT ![c] = [@ EXCEPT !.pc = "pipeline"]]
    /\ UNCHANGED <<mergeRun, extractRun, stores>>

\* config.get(key, default)
ConfigGet(v, default) == IF v = MISSING THEN default ELSE v

\* the text mentions "knowledge base" or "relevant context"
MentionsKB(text) == text = "base_kb"

\* bug variant: the knowledge-base block is put in front of the prompt
enhance_system_prompt_with_kb_first(sections, mentions, kb_context) ==
    IF ~Truthy(kb_context) THEN sections ELSE <<"kb">> \o sections

\* knowledge_base.py 83-109: the KB block, with its header unless the prompt
\* already mentions the knowledge base
enhance_system_prompt_with_kb(sections, mentions, kb_context) ==
    IF ~Truthy(kb_context) THEN sections
    ELSE IF mentions THEN sections \o <<"kb_bare">> ELSE sections \o <<"kb">>

\* bug variant: the no-re-greet section is added to every prompt
conversation_continuity_always(is_new) ==
    IF is_new THEN <<"greeting", "continuity">> ELSE <<"continuity">>

\* agent.py 245-276: INITIAL GREETING for a new conversation, CONVERSATION
\* CONTINUITY otherwise
conversation_continuity_instruction(is_new) ==
    IF is_new THEN <<"greeting">> ELSE <<"continuity">>

\* agent.py 184-219, 245-343: the sections of the system prompt, in order;
\* a null system_prompt raises (str methods and += on None)
build_system_prompt(cfg, initial_kb, is_new) ==
    LET system_prompt == ConfigGet(cfg.system_prompt, "base")
        agent_name == ConfigGet(cfg.name, "AI Assistant")
        agent_description == ConfigGet(cfg.description, EMPTY)
        base == IF Truthy(system_prompt) THEN <<"base">> ELSE <<>>
        identified == IF Truthy(agent_name) \/ Truthy(agent_description)
                      THEN <<"identity">> \o base ELSE base
        enhanced == enhance_system_prompt_with_kb(identified, MentionsKB(system_prompt),
                                                  initial_kb)
    IN  IF system_prompt = NONE
        THEN [raised |-> TRUE, sections |-> <<>>]
        ELSE [raised |-> FALSE,
              sections |-> enhanced \o <<"multilingual">>
                             \o conversation_continuity_instruction(is_new)
                             \o <<"contact", "spoken">>]

\* the prompt of an agent with a name and a base prompt
compose_prompt(initial_kb, is_new) ==
    build_system_prompt(DefaultAgentConfig, initial_kb, is_new).sections

\* what MultilingualModel() does: it returns the model or raises
TurnDetectorOutcomes == {"loaded", "runtime_error", "file_not_found", "other_error"}

\* bug variant: the construction of the turn detector outside the try of 368-376
init_turn_detection_unguarded(o) ==
    [raised |-> (o # "loaded"),
     turn_detection |-> IF o = "loaded" THEN "multilingual" ELSE NONE]

\* agent.py 367-376: turn_detection after the try; every Exception is logged
init_turn_detection(o) ==
    [raised |-> FALSE,
     turn_detection |-> IF o = "loaded" THEN "multilingual" ELSE NONE]

\* agent.py 184-390, 698-753: compose the prompt, load the VAD, construct the
\* turn detector (one of `detectors`) and the pipeline session (a failure
\* raises ValueError), register the handlers, create the two futures
CreatePipelineWith(c, detectors) ==
    /\ calls[c].pc = "pipeline"
    /\ \E ok \in BOOLEAN, o \in detectors :
          LET p == build_system_prompt(calls[c].cfg, calls[c].initial_kb, calls[c].is_new)
              td == init_turn_detection(o)
          IN
          calls' = [calls EXCEPT ![c] =
              IF p.raised
              THEN [@ EXCEPT !.pc = "ended", !.raised = "prompt"]
              ELSE IF td.raised
              THEN [@ EXCEPT !.pc = "ended", !.raised = "turn_detector",
                             !.prompt = p.sections, !.detector = o]
              ELSE IF ok
              THEN [@ EXCEPT !.pc = "start",
                             !.prompt = p.sections,
                             !.detector = o,
                             !.vad = "silero",
                             !.turn_detection = td.turn_detection,
                             !.session = "open",
                             !.disconnect_handler = TRUE,
                             !.shutdown_future = "pending",
                             !.disconnect_future = "pending"]
              ELSE [@ EXCEPT !.pc = "ended", !.raised = "pipeline",
                             !.prompt = p.sections, !.detector = o]]
    /\ UNCHANGED <<mergeRun, extractRun, stores>>

\* the pipeline of a call whose turn detector loads
CreatePipeline(c) == CreatePipelineWith(c, {"loaded"})

\* agent.py 755-765: the session-start task and the greeting task are created
StartSession(c) ==
    /\ calls[c].pc = "start"
    /\ calls' = [calls EXCEPT ![c] =
                    [@ EXCEPT !.pc = "wait_first", !.session_task = "running",
                              !.greeting_task = "created"]]
    /\ UNCHANGED <<mergeRun, extractRun, stores>>

Awaitables == {"session", "shutdown", "disconnect"}
StateOf(call, n) ==
    CASE n = "session" -> call.session_task
      [] n = "shutdown" -> call.shutdown_future
      [] n = "disconnect" -> call.disconnect_future
\* Future.done(): finished, failed or cancelled
IsDone(call, n) == StateOf(call, n) \in {"ok", "failed", "cancelled", "done"}

\* bug variant: only the shutdown future ends a wait
wait_returns_on_shutdown(call, names) == IsDone(call, "shutdown")

\* bug variant: return_when=ALL_COMPLETED
wait_returns_all(call, names) == \A n \in names : IsDone(call, n)

\* asyncio.wait(names, return_when=FIRST_COMPLETED) can return
wait_returns(call, names) == \E n \in names : IsDone(call, n)

\* agent.py 768-773: the first wait returns; done and pending are taken then
WaitFirst(c) ==
    /\ calls[c].pc = "wait_first"
    /\ wait_returns(calls[c], Awaitables)
    /\ calls' = [calls EXCEPT ![c] =
                    [@ EXCEPT !.pending = {n \in Awaitables : ~IsDone(calls[c], n)},
                              !.pc = IF IsDone(calls[c], "session")
                                     THEN "await_session" ELSE "cancel_pending"]]
    /\ UNCHANGED <<mergeRun, extractRun, stores>>

\* agent.py 774-777: await session_task; its exception is logged
AwaitSession(c) ==
    /\ calls[c].pc = "await_session"
    /\ calls' = [calls EXCEPT ![c] = [@ EXCEPT !.pc = "wait_signal"]]
    /\ UNCHANGED <<mergeRun, extractRun, stores>>

\* agent.py 779-782: the second wait, on the two signals
WaitSignal(c) ==
    /\ calls[c].pc = "wait_signal"
    /\ wait_returns(calls[c], {"shutdown", "disconnect"})
    /\ calls' = [calls EXCEPT ![c] = [@ EXCEPT !.pc = "cancel_pending"]]
    /\ UNCHANGED <<mergeRun, extractRun, stores>>

\* bug variant: the pending future is left as it is
cancel_future_skipped(state) == state

\* agent.py 786: Future.cancel() cancels a pending future and leaves a done one
cancel_future(state) == IF state = "pending" THEN "cancelled" ELSE state

\* agent.py 784-790 (and 792-806 when the awaited task raises): cancel one
\* pending awaitable and await it; a running session task has to end first
CancelPending(c) ==
    /\ calls[c].pc = "cancel_pending"
    /\ IF calls[c].pending = {}
       THEN calls' = [calls EXCEPT ![c] = [@ EXCEPT !.pc = "finally"]]
       ELSE \E n \in calls[c].pending :
              LET rest == calls[c].pending \ {n} IN
              calls' = [calls EXCEPT ![c] =
                 CASE n = "shutdown" ->
                        [@ EXCEPT !.pending = rest,
                                  !.shutdown_future = cancel_future(@)]
                   [] n = "disconnect" ->
                        [@ EXCEPT !.pending = rest,
                                  !.disconnect_future = cancel_future(@)]
                   [] n = "session" /\ calls[c].session_task = "running" ->
                        [@ EXCEPT !.pc = "await_cancel", !.session_task = "cancelling"]
                   [] n = "session" /\ calls[c].session_task = "failed" ->
                        [@ EXCEPT !.pending = rest, !.pc = "finally",
                                  !.captured = TRUE, !.raised = "session"]
                   [] OTHER -> [@ EXCEPT !.pending = rest]]
    /\ UNCHANGED <<mergeRun, extractRun, stores>>

\* agent.py 788-790: the cancelled session task has ended; CancelledError is passed
AwaitCancel(c) ==
    /\ calls[c].pc = "await_cancel"
    /\ IsDone(calls[c], "session")
    /\ calls' = [calls EXCEPT ![c] =
                    [@ EXCEPT !.pc = "cancel_pending", !.pending = @ \ {"session"}]]
    /\ UNCHANGED <<mergeRun, extractRun, stores>>

\* what session.aclose() did: it emitted the session's close event or not,
\* and it returned or raised
CloseOutcome(emitted, raised) == [emitted |-> emitted, raised |-> raised]
NoClose == CloseOutcome(FALSE, FALSE)

\* an update_conversation_status task: its arguments and where it stands
StatusUpdate(status, ended_at, state) ==
    [status |-> status, ended_at |-> ended_at, state |-> state]

\* bug variant: an update is launched whether the conversation is known or not
on_session_close_always(conversation_id) ==
    <<StatusUpdate("ended", "utcnow", "created")>>

\* agent.py 456-469: on_session_close, the tasks it creates
on_session_close(conversation_id) ==
    IF Truthy(conversation_id)
    THEN <<StatusUpdate("ended", "utcnow", "created")>>
    ELSE <<>>

\* bug variant: what aclose raises leaves the finally block
close_error_propagates(raised, outcome) ==
    IF outcome.raised THEN "close" ELSE raised

\* agent.py 811-814: what aclose raises is logged; the exception in flight,
\* if any, stays the call's outcome
close_error_swallowed(raised, outcome) == raised

\* agent.py 807-814: unregister the disconnect handler, close the session.
\* The session emits its close event while it closes (handler 456-469); an
\* aclose that raises may have emitted it before or not
Finally(c, outcomes) ==
    /\ calls[c].pc = "finally"
    /\ \E o \in outcomes :
          LET launched == IF o.emitted THEN on_session_close(calls[c].conversation_id)
                          ELSE <<>>
          IN  calls' = [calls EXCEPT ![c] =
                 [@ EXCEPT !.pc = "ended", !.session = "closed",
                           !.disconnect_handler = FALSE,
                           !.close_calls = @ + 1, !.close = o,
                           !.close_events = @ + (IF o.emitted THEN 1 ELSE 0),
                           !.status_updates = @ \o launched,
                           !.raised = close_error_swallowed(@, o)]]
    /\ UNCHANGED <<mergeRun, extractRun, stores>>

\* message_saver.py 113-195: a created update task runs: without the chat
\* service settings it returns (142-152), otherwise it issues one PATCH with
\* the status and ended_at (135-139, 156); whatever the request does it returns
UpdateConversationStatus(c) ==
    /\ calls[c].pc \in {"wait_first", "wait_signal", "await_cancel", "ended"}
    /\ \E i \in DOMAIN calls[c].status_updates :
          /\ calls[c].status_updates[i].state = "created"
          /\ calls' = [calls EXCEPT ![c] =
                [@ EXCEPT !.status_updates[i].state = "done",
                          !.status_requests =
                              IF calls[c].chat_configured
                              THEN Append(@, [status |-> calls[c].status_updates[i].status,
                                              ended_at |-> calls[c].status_updates[i].ended_at])
                              ELSE @]]
    /\ UNCHANGED <<mergeRun, extractRun, stores>>

\* agent.py 755-814: the entrypoint task is cancelled while it awaits (768,
\* 779, 788): CancelledError passes `except Exception` and the finally block runs
EntrypointCancelled(c) ==
    /\ calls[c].pc \in {"wait_first", "wait_signal", "await_cancel"}
    /\ calls' = [calls EXCEPT ![c] = [@ EXCEPT !.pc = "finally", !.raised = "cancelled"]]
    /\ UNCHANGED <<mergeRun, extractRun, stores>>

\* the close of the sessions of the calls modelled end to end
CallCloseOutcomes == {CloseOutcome(TRUE, FALSE)}

\* the steps of the entrypoint coroutine
Entrypoint(c) ==
    \/ ResolveIdentity(c) \/ LoadConfig(c) \/ InitialKB(c)
    \/ HistoryProbe(c, {ProbeFailure("timeout"), ProbeResponse(200, "map", "list", 1)})
    \/ CreatePipeline(c) \/ StartSession(c) \/ WaitFirst(c) \/ AwaitSession(c)
    \/ WaitSignal(c) \/ CancelPending(c) \/ AwaitCancel(c)
    \/ Finally(c, CallCloseOutcomes)

\* the handlers of 752-753 are registered and the entrypoint has not ended
Registered(call) ==
    call.pc \in {"start", "wait_first", "await_session", "wait_signal",
                 "cancel_pending", "await_cancel", "finally"}

\* agent.py 721-723: _on_shutdown
Shutdown(c) ==
    /\ Registered(calls[c])
    /\ calls[c].shutdown_future = "pending"
    /\ calls' = [calls EXCEPT ![c] = [@ EXCEPT !.shutdown_future = "done"]]
    /\ UNCHANGED <<mergeRun, extractRun, stores>>

\* agent.py 725-727: _on_room_disconnected (unregistered at 808)
RoomDisconnected(c) ==
    /\ Registered(calls[c]) /\ calls[c].pc # "finally"
    /\ calls[c].disconnect_handler
    /\ calls[c].disconnect_future = "pending"
    /\ calls' = [calls EXCEPT ![c] = [@ EXCEPT !.disconnect_future = "done"]]
    /\ UNCHANGED <<mergeRun, extractRun, stores>>

\* session.start returns, raises, or ends cancelled (agent.py 756-762). The
\* task runs only while the entrypoint is suspended: from the return of the
\* first wait (771) to the await of the cancelled task (788) nothing is awaited
SessionStarted(c) ==
    /\ calls[c].session_task = "running" /\ calls[c].pc = "wait_first"
    /\ calls' = [calls EXCEPT ![c] = [@ EXCEPT !.session_task = "ok"]]
    /\ UNCHANGED <<mergeRun, extractRun, stores>>

SessionFailed(c) ==
    /\ calls[c].session_task = "running" /\ calls[c].pc = "wait_first"
    /\ calls' = [calls EXCEPT ![c] = [@ EXCEPT !.session_task = "failed"]]
    /\ UNCHANGED <<mergeRun, extractRun, stores>>

SessionCancelled(c) ==
    /\ calls[c].session_task = "cancelling"
    /\ calls' = [calls EXCEPT ![c] = [@ EXCEPT !.session_task = "cancelled"]]
    /\ UNCHANGED <<mergeRun, extractRun, stores>>

\* bug variant: the greeting is requested whether the conversation is new or not
send_initial_greeting_always(is_new) == <<[allow_interruptions |-> FALSE]>>

\* agent.py 729-750: the generate_reply requests of the greeting task
send_initial_greeting_after_start(is_new) ==
    IF is_new THEN <<[allow_interruptions |-> FALSE]>> ELSE <<>>

\* the entrypoint is suspended in an await (768, 779, 788) or has returned:
\* other tasks of the loop run only then
Suspended(call) == call.pc \in {"wait_first", "wait_signal", "await_cancel", "ended"}

\* agent.py 731-734: the greeting task starts; it returns at once when the
\* conversation is not new, and sleeps 0.5 s otherwise
GreetingBegin(c) ==
    /\ calls[c].greeting_task = "created" /\ Suspended(calls[c])
    /\ calls' = [calls EXCEPT ![c] =
                    [@ EXCEPT !.greeting_task =
                        IF send_initial_greeting_after_start(calls[c].is_new) = <<>>
                        THEN "done" ELSE "sleeping"]]
    /\ UNCHANGED <<mergeRun, extractRun, stores>>

\* agent.py 736-750: after the sleep generate_reply is requested; what it
\* raises is logged
GreetingReply(c) ==
    /\ calls[c].greeting_task = "sleeping" /\ Suspended(calls[c])
    /\ calls' = [calls EXCEPT ![c] =
                    [@ EXCEPT !.greeting_task = "done",
                              !.replies = @ \o send_initial_greeting_after_start(calls[c].is_new)]]
    /\ UNCHANGED <<mergeRun, extractRun, stores>>

(***************************************************************************)
(* Conversation metadata, extractions, and the contact store.              *)
(***************************************************************************)
TagKeys == {"source", "auto_created", "extracted_from_message"}
MetaKeys == ContactFields \cup TagKeys
EmptyMeta == [k \in MetaKeys |-> MISSING]
ConvIds == {"c1", "c2", "c3"}

Extraction(e, p, fn) ==
    [email |-> e, phone |-> p, first_name |-> fn, last_name |-> NONE, company_name |-> NONE]
NoExtraction == Extraction(NONE, NONE, NONE)

\* the conversation service applies PATCH {"metadata": payload}: every key of
\* the payload is stored
patch_metadata(meta, payload) ==
    [k \in MetaKeys |-> IF payload[k] # MISSING THEN payload[k] ELSE meta[k]]

\* bug variant: the lookup is not scoped by company_id
select_contacts_unscoped(store, company_id, field, value) ==
    {i \in DOMAIN store : store[i][field] = value}

\* agent.py 558, 563: table("contacts").select("id").eq("company_id", ..).eq(field, ..)
select_contacts(store, company_id, field, value) ==
    {i \in DOMAIN store : store[i].company_id = company_id /\ store[i][field] = value}

\* maybe_single(): no row gives no data, one row gives it, several rows raise
maybe_single(ids) ==
    IF Cardinality(ids) > 1 THEN [raised |-> TRUE, id |-> 0]
    ELSE IF ids = {} THEN [raised |-> FALSE, id |-> 0]
    ELSE [raised |-> FALSE, id |-> CHOOSE i \in ids : TRUE]

\* existing_contact.get(field) at 589, 591: the row was selected with
\* select("id"), so it carries no other column
existing_contact_get(store, id, field) == NONE

\* agent.py 570-592: the columns of update_data (MISSING: not in update_data)
update_data(store, id, extracted, updated, email, phone) ==
    LET name(f) == IF Truthy(extracted[f]) /\ ~Truthy(DictGet(updated[f])) THEN extracted[f]
                   ELSE IF Truthy(DictGet(updated[f])) THEN updated[f]
                   ELSE MISSING
    IN  [email |-> IF Truthy(email) /\ ~Truthy(existing_contact_get(store, id, "email"))
                   THEN email ELSE MISSING,
         phone |-> IF Truthy(phone) /\ ~Truthy(existing_contact_get(store, id, "phone"))
                   THEN phone ELSE MISSING,
         first_name |-> name("first_name"),
         last_name |-> name("last_name"),
         company_name |-> name("company_name")]

\* agent.py 603: {**existing_metadata, **updated_metadata}
merge_metadata(existing_metadata, updated) ==
    [k \in MetaKeys |-> IF updated[k] # MISSING THEN updated[k] ELSE existing_metadata[k]]

\* agent.py 608: update(update_data).eq("id", id).eq("company_id", company_id)
update_contact(store, id, company_id, data, metadata, who) ==
    [i \in DOMAIN store |->
        IF i = id /\ store[i].company_id = company_id
        THEN [company_id |-> store[i].company_id,
              email |-> IF data.email # MISSING THEN data.email ELSE store[i].email,
              phone |-> IF data.phone # MISSING THEN data.phone ELSE store[i].phone,
              first_name |-> IF data.first_name # MISSING THEN data.first_name
                             ELSE store[i].first_name,
              last_name |-> IF data.last_name # MISSING THEN data.last_name
                            ELSE store[i].last_name,
              company_name |-> IF data.company_name # MISSING THEN data.company_name
                               ELSE store[i].company_name,
              metadata |-> metadata,
              writers |-> store[i].writers \cup {who}]
        ELSE store[i]]

\* agent.py 611-624: the row of a new contact (`x or None`)
contact_data(company_id, extracted, updated, email, phone, who) ==
    LET col(f) == LET v == PyOr(DictGet(updated[f]), extracted[f])
                  IN  IF Truthy(v) THEN v ELSE NONE
    IN  [company_id |-> company_id,
         email |-> IF Truthy(email) THEN email ELSE NONE,
         phone |-> IF Truthy(phone) THEN phone ELSE NONE,
         first_name |-> col("first_name"),
         last_name |-> col("last_name"),
         company_name |-> col("company_name"),
         metadata |-> merge_metadata(
                         [k \in MetaKeys |->
                             CASE k = "source" -> "voice_call"
                               [] k = "auto_created" -> "True"
                               [] k = "extracted_from_message" -> "True"
                               [] OTHER -> MISSING],
                         updated),
         writers |-> {who}]

(***************************************************************************)
(* contact_extractor.extract_contact_info_llm: the validation of the       *)
(* model's JSON response. A JSON string is kept as its characters.         *)
(***************************************************************************)
JsonStr(chars) == [kind |-> "str", chars |-> chars]
JsonNull == [kind |-> "null", chars |-> <<>>]       \* JSON null, Python None
JsonMissing == [kind |-> "missing", chars |-> <<>>] \* the key is absent
NullLiteral == <<"n", "u", "l", "l">>

\* confidence: a number in hundredths, null, or absent
Confidence(kind, value) == [kind |-> kind, value |-> value]
NumConfidence(value) == Confidence("num", value)

ModelResponse(email, phone, first_name, last_name, company_name, confidence) ==
    [email |-> email, phone |-> phone, first_name |-> first_name,
     last_name |-> last_name, company_name |-> company_name, confidence |-> confidence]

\* contact_extractor.py 24-34: ExtractedContactInfo(), every field None
EmptyContactInfo ==
    ModelResponse(JsonNull, JsonNull, JsonNull, JsonNull, JsonNull, Confidence("null", 0))

\* `result.get(k) and result[k] != "null"`
Present(v) == v.kind = "str" /\ v.chars # <<>> /\ v.chars # NullLiteral

IsDigit(ch) == ch \in {"0", "1", "2", "3", "4", "5", "6", "7", "8", "9"}

\* bug variant: the value is kept as the model wrote it
phone_digits_unfiltered(chars) == chars

\* "".join(filter(str.isdigit, str(phone)))
RECURSIVE phone_digits(_)
phone_digits(chars) ==
    IF chars = <<>> THEN <<>>
    ELSE (IF IsDigit(Head(chars)) THEN <<Head(chars)>> ELSE <<>>)
             \o phone_digits(Tail(chars))

\* str.strip() and str.lower() over the characters of the inputs
RECURSIVE lstrip(_)
lstrip(chars) ==
    IF chars # <<>> /\ Head(chars) = " " THEN lstrip(Tail(chars)) ELSE chars
RECURSIVE rstrip(_)
rstrip(chars) ==
    IF chars # <<>> /\ chars[Len(chars)] = " "
    THEN rstrip(SubSeq(chars, 1, Len(chars) - 1)) ELSE chars
strip(chars) == rstrip(lstrip(chars))
lower(chars) ==
    [i \in DOMAIN chars |->
        CASE chars[i] = "A" -> "a" [] chars[i] = "B" -> "b" [] OTHER -> chars[i]]

MinPhoneDigits == 10
NameThreshold == 70

\* bug variant: a confidence of exactly 0.7 does not pass
confidence_passes_strict(value) == value > NameThreshold

\* `confidence >= 0.7`, in hundredths
confidence_passes(value) == value >= NameThreshold

\* contact_extractor.py 121-157: the validation of a parsed response.
\* Comparing None with 0.7 raises when a name is present, float(None) raises
\* whenever the confidence key holds null.
validate_result(result) ==
    LET confidence == IF result.confidence.kind = "missing"
                      THEN NumConfidence(0) ELSE result.confidence
        digits == phone_digits(result.phone.chars)
        email == IF Present(result.email) /\ (\E i \in DOMAIN result.email.chars :
                                                  result.email.chars[i] = "@")
                 THEN JsonStr(strip(lower(result.email.chars))) ELSE JsonNull
        phone == IF Present(result.phone) /\ Len(digits) >= MinPhoneDigits
                 THEN JsonStr(digits) ELSE JsonNull
        name(v) == IF Present(v) /\ confidence.kind = "num"
                                 /\ confidence_passes(confidence.value)
                   THEN JsonStr(strip(v.chars)) ELSE JsonNull
        company == IF Present(result.company_name)
                   THEN JsonStr(strip(result.company_name.chars)) ELSE JsonNull
        compare_raises == confidence.kind # "num"
                             /\ (Present(result.first_name) \/ Present(result.last_name))
        float_raises == result.confidence.kind = "null"
    IN  IF compare_raises \/ float_raises
        THEN [raised |-> TRUE, extracted |-> EmptyContactInfo]
        ELSE [raised |-> FALSE,
              extracted |-> ModelResponse(email, phone, name(result.first_name),
                                          name(result.last_name), company,
                                          IF result.confidence.kind = "missing"
                                          THEN Confidence("null", 0)
                                          ELSE result.confidence)]

\* bug variant: without the except clause of lines 159-161
extract_contact_info_llm_unguarded(outcome) ==
    IF outcome.kind \in {"error", "bad_json"} THEN [raised |-> TRUE, extracted |-> EmptyContactInfo]
    ELSE IF outcome.kind # "object" THEN [raised |-> FALSE, extracted |-> EmptyContactInfo]
    ELSE validate_result(outcome.result)

\* contact_extractor.py 41-161: no API key, a failed completion or a response
\* that is not JSON give the empty record; whatever the validation raises is
\* caught and gives the empty record too
extract_contact_info_llm(outcome) ==
    [raised |-> FALSE,
     extracted |-> IF outcome.kind # "object" THEN EmptyContactInfo
                   ELSE validate_result(outcome.result).extracted]

LLMOutcome(kind, result) == [kind |-> kind, result |-> result]
ExtractIdle ==
    [pc |-> "idle", outcome |-> LLMOutcome("no_key", EmptyContactInfo),
     raised |-> FALSE, extracted |-> EmptyContactInfo]

(***************************************************************************)
(* A contact-processing task: process_contact_info_from_message, one       *)
(* asyncio task per user item.  did: the requests it has issued; seen: the *)
(* contact rows the store has returned to it.                              *)
(***************************************************************************)
NewTask(c) ==
    [call |-> c, pc |-> "start", extracted |-> NoExtraction, updated |-> EmptyMeta,
     email |-> NONE, phone |-> NONE, existing |-> 0, existing_metadata |-> EmptyMeta,
     contact_id |-> 0, did |-> {}, seen |-> {},
     conv_status |-> "none", patch_status |-> "none",  \* the answers to GET and PATCH
     inserted |-> "none",                               \* the answer to the insert
     outcome |-> LLMOutcome("none", EmptyContactInfo),  \* of the completion request
     llm_raised |-> FALSE]                              \* the extractor raised into the task

MaxTurns == 1
MaxTasks == 2
MaxCallItems == 1

\* the requests a task makes through a synchronous client, which returns only
\* with the answer: the OpenAI completion (contact_extractor.py 60, 104) and the
\* supabase requests (agent.py 553-626)
SyncPcs == {"llm", "lookup_email", "lookup_phone", "fetch_meta", "update", "insert"}
\* the requests a task awaits (aiohttp): history GET, conversation GET, PATCH, link
AsyncPcs == {"history", "conv_get", "patch", "link"}
\* another task (or, for t = 0, any task) of call c holds c's event loop
Busy(c, t) == \E u \in DOMAIN tasks : u # t /\ tasks[u].call = c /\ tasks[u].pc \in SyncPcs

CallOf(t) == calls[tasks[t].call]
Did(t, what) == tasks[t].did \cup what

\* agent.py 476-496: the guard, then the history request
TaskStart(t) ==
    /\ tasks[t].pc = "start"
    /\ tasks' = [tasks EXCEPT ![t] =
          IF ~Truthy(CallOf(t).conversation_id) \/ ~Truthy(CallOf(t).company_id)
          THEN [@ EXCEPT !.pc = "done"]
          ELSE [@ EXCEPT !.pc = "history", !.did = Did(t, {"history"})]]
    /\ UNCHANGED <<mergeRun, extractRun, calls, convMeta, convContact, contacts>>

\* agent.py 497-513: the history answer (or failure); the completion is then
\* requested from the language model (contact_extractor.py 104-119)
TaskHistory(t) ==
    /\ tasks[t].pc = "history"
    /\ tasks' = [tasks EXCEPT ![t] = [@ EXCEPT !.pc = "llm", !.did = Did(t, {"extract"})]]
    /\ UNCHANGED <<mergeRun, extractRun, calls, convMeta, convContact, contacts>>

\* agent.py 513-535: the extraction the language-model call gave,
\* has_contact_info, then the conversation GET
TaskExtract(t, extractions) ==
    /\ tasks[t].pc = "llm"
    /\ \E e \in extractions :
          tasks' = [tasks EXCEPT ![t] =
              IF has_contact_info(e)
              THEN [@ EXCEPT !.pc = "conv_get", !.extracted = e,
                             !.did = Did(t, {"conv_get"})]
              ELSE [@ EXCEPT !.pc = "done", !.extracted = e]]
    /\ UNCHANGED <<mergeRun, extractRun, calls, convMeta, convContact, contacts>>

\* the values of the model responses, as the values of the store
Atom(chars) ==
    CASE chars = <<"a", "@", "b">> -> "e1"
      [] chars = [i \in 1..MinPhoneDigits |-> "5"] -> "p1"
      [] chars = <<"A", "n", "n">> -> "Ann"
      [] OTHER -> "other"
AsExtraction(info) ==
    [f \in ContactFields |-> IF info[f].kind = "str" THEN Atom(info[f].chars) ELSE NONE]

\* agent.py 513-535, 643-644: the completion request ends in `outcome`; an
\* exception of the extractor would end the task in the handler of line 643
TaskExtractLLM(t, outcomes) ==
    /\ tasks[t].pc = "llm"
    /\ \E o \in outcomes :
          LET r == extract_contact_info_llm(o)
              e == AsExtraction(r.extracted)
          IN  tasks' = [tasks EXCEPT ![t] =
                 IF r.raised
                 THEN [@ EXCEPT !.pc = "done", !.outcome = o, !.llm_raised = TRUE]
                 ELSE IF has_contact_info(e)
                 THEN [@ EXCEPT !.pc = "conv_get", !.extracted = e, !.outcome = o,
                                !.did = Did(t, {"conv_get"})]
                 ELSE [@ EXCEPT !.pc = "done", !.extracted = e, !.outcome = o]]
    /\ UNCHANGED <<mergeRun, extractRun, calls, convMeta, convContact, contacts>>

\* the answer to a request of the task: a status, or the request failed
\* (aiohttp raised: timeout, connection error), caught at agent.py 641-642
HttpAnswers == {"200", "500", "failed"}

\* bug variant: every answered request counts as accepted
status_accepted_any(status) == status # "failed"

\* agent.py 536, 546: `response.status == 200`
status_accepted(status) == status = "200"

\* agent.py 535-546: the conversation answer; on 200 merge and PATCH the metadata
TaskConvGet(t) ==
    /\ tasks[t].pc = "conv_get"
    /\ \E status \in HttpAnswers :
          tasks' = [tasks EXCEPT ![t] =
              IF status_accepted(status)
              THEN [@ EXCEPT !.pc = "patch", !.conv_status = status,
                             !.updated = merge_contact_info(
                                             convMeta[CallOf(t).conversation_id],
                                             tasks[t].extracted),
                             !.did = Did(t, {"meta_patch"})]
              ELSE [@ EXCEPT !.pc = "done", !.conv_status = status]]
    /\ UNCHANGED <<mergeRun, extractRun, calls, convMeta, convContact, contacts>>

\* agent.py 546-552, 635-639: the PATCH answer; on 200 the email and phone to look up
TaskPatch(t) ==
    /\ tasks[t].pc = "patch"
    /\ \E status \in HttpAnswers :
          IF status_accepted(status)
          THEN LET email == PyOr(DictGet(tasks[t].updated["email"]), tasks[t].extracted["email"])
                   phone == PyOr(DictGet(tasks[t].updated["phone"]), tasks[t].extracted["phone"])
               IN  /\ convMeta' = [convMeta EXCEPT ![CallOf(t).conversation_id] =
                                      patch_metadata(@, tasks[t].updated)]
                   /\ tasks' = [tasks EXCEPT ![t] =
                        [@ EXCEPT !.email = email, !.phone = phone,
                                  !.patch_status = status,
                                  !.pc = IF Truthy(email) THEN "lookup_email"
                                         ELSE IF Truthy(phone) THEN "lookup_phone"
                                         ELSE "done"]]
          ELSE /\ tasks' = [tasks EXCEPT ![t] =
                              [@ EXCEPT !.pc = "done", !.patch_status = status]]
               /\ UNCHANGED convMeta
    /\ UNCHANGED <<mergeRun, extractRun, calls, convContact, contacts>>

\* agent.py 557-560: look the contact up by email
TaskLookupEmail(t) ==
    /\ tasks[t].pc = "lookup_email"
    /\ LET r == maybe_single(select_contacts(contacts, CallOf(t).company_id,
                                             "email", tasks[t].email))
       IN  tasks' = [tasks EXCEPT ![t] =
              IF r.raised THEN [@ EXCEPT !.pc = "done", !.did = Did(t, {"lookup"})]
              ELSE [@ EXCEPT !.existing = r.id, !.did = Did(t, {"lookup"}),
                             !.seen = IF r.id = 0 THEN @ ELSE @ \cup {r.id},
                             !.pc = IF r.id # 0 THEN "fetch_meta"
                                    ELSE IF Truthy(tasks[t].phone) THEN "lookup_phone"
                                    ELSE "insert"]]
    /\ UNCHANGED <<mergeRun, extractRun, calls, convMeta, convContact, contacts>>

\* agent.py 562-565: look the contact up by phone
TaskLookupPhone(t) ==
    /\ tasks[t].pc = "lookup_phone"
    /\ LET r == maybe_single(select_contacts(contacts, CallOf(t).company_id,
                                             "phone", tasks[t].phone))
       IN  tasks' = [tasks EXCEPT ![t] =
              IF r.raised THEN [@ EXCEPT !.pc = "done", !.did = Did(t, {"lookup"})]
              ELSE [@ EXCEPT !.existing = r.id, !.did = Did(t, {"lookup"}),
                             !.seen = IF r.id = 0 THEN @ ELSE @ \cup {r.id},
                             !.pc = IF r.id # 0 THEN "fetch_meta" ELSE "insert"]]
    /\ UNCHANGED <<mergeRun, extractRun, calls, convMeta, convContact, contacts>>

\* agent.py 595-600: read the metadata of the matched row
TaskFetchMeta(t) ==
    /\ tasks[t].pc = "fetch_meta"
    /\ LET ids == {i \in DOMAIN contacts :
                      i = tasks[t].existing /\ contacts[i].company_id = CallOf(t).company_id}
       IN  tasks' = [tasks EXCEPT ![t] =
              [@ EXCEPT !.pc = "update", !.did = Did(t, {"fetch_meta"}),
                        !.seen = @ \cup ids,
                        !.existing_metadata =
                            IF ids = {} THEN EmptyMeta
                            ELSE contacts[tasks[t].existing].metadata]]
    /\ UNCHANGED <<mergeRun, extractRun, calls, convMeta, convContact, contacts>>

\* agent.py 567-608: update the matched row
TaskUpdate(t) ==
    /\ tasks[t].pc = "update"
    /\ contacts' = update_contact(contacts, tasks[t].existing, CallOf(t).company_id,
                      update_data(contacts, tasks[t].existing, tasks[t].extracted,
                                  tasks[t].updated, tasks[t].email, tasks[t].phone),
                      merge_metadata(tasks[t].existing_metadata, tasks[t].updated),
                      CallOf(t).company_id)
    /\ tasks' = [tasks EXCEPT ![t] = [@ EXCEPT !.pc = "done", !.did = Did(t, {"update"})]]
    /\ UNCHANGED <<mergeRun, extractRun, calls, convMeta, convContact>>

\* the answer to the insert: the new row, no row (the row is stored but not
\* returned), or the request raised and stored nothing (caught at 641-642)
InsertOutcomes == {"row", "empty", "raised"}

\* bug variant: the id is taken and linked whatever the insert answered
inserted_contact_id_unchecked(outcome, id) == id

\* agent.py 627-628: `if result.data and len(result.data) > 0`, then
\* contact_id = result.data[0]["id"]; 0 when there is no row to link
inserted_contact_id(outcome, id) == IF outcome = "row" THEN id ELSE 0

\* agent.py 609-632: insert a new row, then PATCH the conversation's contact_id
TaskInsertWith(t, outcomes) ==
    /\ tasks[t].pc = "insert"
    /\ \E o \in outcomes :
          LET contact_id == inserted_contact_id(o, Len(contacts) + 1) IN
          /\ contacts' = IF o = "raised" THEN contacts
                         ELSE Append(contacts,
                                 contact_data(CallOf(t).company_id, tasks[t].extracted,
                                              tasks[t].updated, tasks[t].email,
                                              tasks[t].phone, CallOf(t).company_id))
          /\ tasks' = [tasks EXCEPT ![t] =
                          [@ EXCEPT !.pc = IF contact_id # 0 THEN "link" ELSE "done",
                                    !.contact_id = contact_id, !.inserted = o,
                                    !.did = Did(t, IF contact_id # 0 THEN {"insert", "link"}
                                                   ELSE {"insert"})]]
    /\ UNCHANGED <<mergeRun, extractRun, calls, convMeta, convContact>>

\* the insert that returns the new row
TaskInsert(t) == TaskInsertWith(t, {"row"})

\* agent.py 632-634: the answer to the contact_id PATCH
TaskLink(t) ==
    /\ tasks[t].pc = "link"
    /\ \E ok \in BOOLEAN :
          convContact' = [convContact EXCEPT ![CallOf(t).conversation_id] =
                             IF ok THEN tasks[t].contact_id ELSE @]
    /\ tasks' = [tasks EXCEPT ![t] = [@ EXCEPT !.pc = "done"]]
    /\ UNCHANGED <<mergeRun, extractRun, calls, convMeta, contacts>>

\* one step of task t, when no other task of its call holds the event loop
TaskIds == 1..MaxTasks
\* task t exists and no other task of its call holds the event loop
Runnable(t) == t \in DOMAIN tasks /\ ~Busy(tasks[t].call, t)

TaskStep(extractions) ==
    \/ \E t \in TaskIds : Runnable(t) /\ TaskStart(t)
    \/ \E t \in TaskIds : Runnable(t) /\ TaskHistory(t)
    \/ \E t \in TaskIds : Runnable(t) /\ TaskExtract(t, extractions)
    \/ \E t \in TaskIds : Runnable(t) /\ TaskConvGet(t)
    \/ \E t \in TaskIds : Runnable(t) /\ TaskPatch(t)
    \/ \E t \in TaskIds : Runnable(t) /\ TaskLookupEmail(t)
    \/ \E t \in TaskIds : Runnable(t) /\ TaskLookupPhone(t)
    \/ \E t \in TaskIds : Runnable(t) /\ TaskFetchMeta(t)
    \/ \E t \in TaskIds : Runnable(t) /\ TaskUpdate(t)
    \/ \E t \in TaskIds : Runnable(t) /\ TaskInsert(t)
    \/ \E t \in TaskIds : Runnable(t) /\ TaskLink(t)

(***************************************************************************)
(* Pipeline events of a started session.                                   *)
(***************************************************************************)
\* the session has started and is not closed: it produces turns and items
Active(call) == call.session_task = "ok" /\ call.session = "open"

(***************************************************************************)
(* knowledge_base.get_knowledge_base_context.  The outcome of the search    *)
(* request is a record                                                     *)
(*   kind    "timeout", "client_error", "other_error" or "response"        *)
(*   status  the HTTP status of a response                                 *)
(*   body    "malformed" (not JSON), "not_map" (JSON, not an object), "map"*)
(*   results "missing" (no results key), "not_list", or "list"             *)
(*   items   the results: for each its metadata.text, MISSING when absent, *)
(*           BADITEM for a result that is not an object with a metadata    *)
(*           object                                                        *)
(* The context returned is the sequence of the texts joined; <<>> is None. *)
(***************************************************************************)
BADITEM == "<bad item>"
KBOutcome(kind, status, body, results, items) ==
    [kind |-> kind, status |-> status, body |-> body, results |-> results, items |-> items]
KBFailure(kind) == KBOutcome(kind, 0, "malformed", "missing", <<>>)
KBResponse(status, body, results, items) == KBOutcome("response", status, body, results, items)

\* knowledge_base.py 50-61: the non-empty texts of the results, in order
RECURSIVE context_parts(_)
context_parts(items) ==
    IF items = <<>> THEN <<>>
    ELSE (IF Truthy(DictGet(Head(items))) THEN <<Head(items)>> ELSE <<>>)
            \o context_parts(Tail(items))

\* the body of the try of knowledge_base.py 30-67: what it returns or raises
kb_search(o) ==
    IF o.kind # "response" THEN [raised |-> o.kind, context |-> <<>>]
    ELSE IF o.status # 200 THEN [raised |-> "no", context |-> <<>>]
    ELSE IF o.body = "malformed" THEN [raised |-> "decode", context |-> <<>>]
    ELSE IF o.body = "not_map" THEN [raised |-> "attribute", context |-> <<>>]
    ELSE IF o.results = "missing" THEN [raised |-> "no", context |-> <<>>]
    ELSE IF o.results = "not_list" THEN [raised |-> "type", context |-> <<>>]
    ELSE IF \E i \in DOMAIN o.items : o.items[i] = BADITEM
         THEN [raised |-> "attribute", context |-> <<>>]
         ELSE [raised |-> "no", context |-> context_parts(o.items)]

\* bug variant: only the handler of 69-74 (timeout, client error), not 75-80
get_knowledge_base_context_narrow(o) ==
    LET r == kb_search(o) IN
    IF r.raised \in {"timeout", "client_error"} THEN [raised |-> "no", context |-> <<>>] ELSE r

\* knowledge_base.py 12-80: every exception of the try gives None
get_knowledge_base_context(o) ==
    LET r == kb_search(o) IN
    IF r.raised # "no" THEN [raised |-> "no", context |-> <<>>] ELSE r

\* the new_message of a turn: the attribute the handler finds on it
\* ("text_content", "content" or "none") and that attribute's value
TurnMessage(attr, value) == [attr |-> attr, value |-> value]
SaidHi == TurnMessage("text_content", JsonStr(<<"h", "i">>))

NoTurn ==
    [outcome |-> KBFailure("none"), message |-> SaidHi, queried |-> FALSE,
     query |-> JsonNull, raised |-> FALSE, added |-> <<>>, messages |-> 0]

\* str(x) of a string or of None
py_str(v) == IF v.kind = "str" THEN v ELSE JsonStr(<<"N", "o", "n", "e">>)

\* agent.py 419-424: the user's text of the message
user_text_of(message) ==
    IF message.attr = "text_content" THEN message.value
    ELSE IF message.attr = "content" THEN py_str(message.value)
    ELSE JsonStr(<<>>)

\* bug variant: the query is issued whatever the user's text is
kb_query_gate_any_text(kb_enabled, company_id, user_text) ==
    kb_enabled /\ Truthy(company_id)

\* agent.py 414-427: the returns before the query
kb_query_gate(kb_enabled, company_id, user_text) ==
    /\ kb_enabled /\ Truthy(company_id)
    /\ user_text.kind = "str" /\ user_text.chars # <<>>

\* agent.py 410-444: DynamicKBAgent.on_user_turn_completed: whether it
\* queries, with what text, and the context message it adds to turn_ctx
on_user_turn_completed(kb_enabled, company_id, message, o) ==
    IF ~kb_query_gate(kb_enabled, company_id, user_text_of(message))
    THEN [NoTurn EXCEPT !.message = message]
    ELSE LET r == get_knowledge_base_context(o) IN
         [outcome |-> o, message |-> message, queried |-> TRUE,
          query |-> user_text_of(message),
          raised |-> (r.raised # "no"),
          added |-> IF r.raised = "no" THEN r.context ELSE <<>>,
          messages |-> IF r.raised = "no" /\ r.context # <<>> THEN 1 ELSE 0]

\* agent.py 410-444: a completed user turn of the session, with one of
\* `messages` and one of `outcomes` for the search request
OnUserTurnCompleted(c, messages, outcomes) ==
    /\ Active(calls[c])
    /\ calls[c].turns < MaxTurns
    /\ \E m \in messages, o \in outcomes :
          LET t == on_user_turn_completed(calls[c].kb_enabled, calls[c].company_id, m, o) IN
          calls' = [calls EXCEPT ![c] =
              [@ EXCEPT !.turns = @ + 1,
                        !.kb_queries = @ + (IF t.queried THEN 1 ELSE 0),
                        !.last_turn = t]]
    /\ UNCHANGED <<mergeRun, extractRun, stores>>

\* a turn with text
UserTurnCompleted(c, outcomes) == OnUserTurnCompleted(c, {SaidHi}, outcomes)

(***************************************************************************)
(* Identity resolution on its own: every form of job metadata, every room  *)
(* source, three room names.                                               *)
(***************************************************************************)
JobMaps ==
    {IdMap(s, a, c, u, co) :
        s \in {"camel", "snake"}, a \in {MISSING, EMPTY, "agent-j"},
        c \in {MISSING, "c1"}, u \in {MISSING, "user-j"}, co \in {MISSING, "A"}}
RoomMaps ==
    {IdMap(s, a, c, u, MISSING) :
        s \in {"camel", "snake"}, a \in {MISSING, "agent-r"},
        c \in {MISSING, "c2"}, u \in {MISSING, "user-r"}}
JobRaws ==
    {AbsentRaw, MalformedRaw, NotMapRaw}
        \cup {JsonRaw(m) : m \in JobMaps} \cup {DictRaw(m) : m \in JobMaps}
RoomRaws ==
    {MalformedRaw, NotMapRaw} \cup {JsonRaw(m) : m \in RoomMaps}
Rooms ==
    {Room(md, FALSE, AbsentRaw, ApiError) : md \in RoomRaws \cup {DictRaw(IdMap("camel", "agent-r", "c2", MISSING, MISSING))}}
        \cup {Room(AbsentRaw, TRUE, md, ApiError) : md \in RoomRaws}
        \cup {Room(AbsentRaw, hi, AbsentRaw, api) :
                hi \in BOOLEAN,
                api \in {ApiError} \cup {ApiRooms(md) : md \in RoomRaws \cup {AbsentRaw}}}
RoomNames == {<<"lobby">>, <<PREFIX, "c3">>, <<PREFIX>>}

\* no task yet, fresh conversations, an empty contact store
NoStores ==
    /\ tasks = <<>>
    /\ convMeta = [cv \in ConvIds |-> EmptyMeta]
    /\ convContact = [cv \in ConvIds |-> 0]
    /\ contacts = <<>>

MergeIdle ==
    [pc |-> "idle", existing |-> [f \in ContactFields |-> MISSING],
     extracted |-> [f \in ContactFields |-> NONE],
     merged |-> [f \in ContactFields |-> MISSING],
     again |-> [f \in ContactFields |-> MISSING]]

(***************************************************************************)
(* agent.py on_conversation_item_added: the text of a produced item, kept  *)
(* as its characters, is cleaned and handed to the tasks it launches.      *)
(***************************************************************************)
\* an item event: `present` is FALSE when the event carries no item
Item(present, role, text) == [present |-> present, role |-> role, text |-> text]

\* str.strip(chars): the characters of the set are removed from both ends
RECURSIVE lstrip_of(_, _)
lstrip_of(chars, set) ==
    IF chars # <<>> /\ Head(chars) \in set THEN lstrip_of(Tail(chars), set) ELSE chars
RECURSIVE rstrip_of(_, _)
rstrip_of(chars, set) ==
    IF chars # <<>> /\ chars[Len(chars)] \in set
    THEN rstrip_of(SubSeq(chars, 1, Len(chars) - 1), set) ELSE chars
strip_of(chars, set) == rstrip_of(lstrip_of(chars, set), set)

Contains(chars, ch) == \E i \in DOMAIN chars : chars[i] = ch

\* repr() of a Python string without backslashes: single quotes, unless the
\* string holds a single quote and no double quote
py_repr_str(chars) ==
    IF Contains(chars, "'") /\ ~Contains(chars, "\"")
    THEN <<"\"">> \o chars \o <<"\"">> ELSE <<"'">> \o chars \o <<"'">>

\* json.loads over texts without commas, digits, letters of literals or
\* backslashes: a value is a string in double quotes, or a list of no or one
\* value; `first` is str(parsed[0]) of a list, `repr` the Python repr
JsonFail == [ok |-> FALSE, kind |-> "none", len |-> 0, first |-> <<>>, repr |-> <<>>]
RECURSIVE json_loads_text(_)
json_loads_text(text) ==
    LET s == strip(text)
        n == Len(s)
    IN  IF n < 2 THEN JsonFail
        ELSE IF s[1] = "\"" /\ s[n] = "\""
        THEN LET x == SubSeq(s, 2, n - 1) IN
             IF Contains(x, "\"") THEN JsonFail
             ELSE [ok |-> TRUE, kind |-> "str", len |-> Len(x), first |-> x,
                   repr |-> py_repr_str(x)]
        ELSE IF s[1] = "[" /\ s[n] = "]"
        THEN LET inner == strip(SubSeq(s, 2, n - 1)) IN
             IF inner = <<>>
             THEN [ok |-> TRUE, kind |-> "list", len |-> 0, first |-> <<>>,
                   repr |-> <<"[", "]">>]
             ELSE LET e == json_loads_text(inner) IN
                  IF ~e.ok THEN JsonFail
                  ELSE [ok |-> TRUE, kind |-> "list", len |-> 1,
                        first |-> IF e.kind = "str" THEN e.first ELSE e.repr,
                        repr |-> <<"[">> \o e.repr \o <<"]">>]
        ELSE JsonFail

\* bug variant: only the brackets are removed
strip_list_format_brackets(chars) == strip_of(chars, {"[", "]"})

\* agent.py 673: content_str.strip('[]').strip('"').strip("'")
strip_list_format(chars) ==
    strip_of(strip_of(strip_of(chars, {"[", "]"}), {"\""}), {"'"})

\* agent.py 660-673: the text is stripped; a text in brackets is replaced by
\* the first element of the JSON list it parses to, or loses its brackets
\* and quotes when it does not parse
clean_content(content) ==
    LET content_str == strip(content)
        n == Len(content_str)
    IN  IF n > 0 /\ content_str[1] = "[" /\ content_str[n] = "]"
        THEN LET parsed == json_loads_text(content_str) IN
             IF ~parsed.ok THEN strip_list_format(content_str)
             ELSE IF parsed.kind = "list" /\ parsed.len > 0 THEN parsed.first
             ELSE IF parsed.kind = "str" THEN parsed.first
             ELSE content_str
        ELSE content_str

\* bug variant: every item is taken for the user's
sender_type_user(role) == "user"

\* agent.py 680
sender_type_of(role) == IF role = "user" THEN "user" ELSE "agent"

\* a create_task call of the handler: the coroutine and its arguments
Launch(fn, content, sender_type, message_type, source) ==
    [fn |-> fn, content |-> content, sender_type |-> sender_type,
     message_type |-> message_type, source |-> source]

\* agent.py 646-696: the tasks the handler creates for an item event
on_conversation_item_added(conversation_id, item) ==
    IF ~item.present \/ ~Truthy(conversation_id) THEN <<>>
    ELSE IF item.text = <<>> THEN <<>>
    ELSE LET content_str == clean_content(item.text)
             sender_type == sender_type_of(item.role)
         IN  IF content_str = <<>> THEN <<>>
             ELSE <<Launch("save_message", content_str, sender_type, "audio", "voice_call")>>
                    \o (IF sender_type = "user"
                        THEN <<Launch("process_contact_info_from_message", content_str,
                                      "", "", "")>>
                        ELSE <<>>)

\* message_saver.py 36-48: the content of the create request, <<>> when the
\* message is skipped
save_message_content(content) == strip(content)

Launched(launched, fn) == {i \in DOMAIN launched : launched[i].fn = fn}

\* agent.py 646-696: an item event of the session, one of `items`
ConversationItemAdded(c, items, bound) ==
    /\ Active(calls[c])
    /\ calls[c].items < bound
    /\ Len(tasks) < MaxTasks
    /\ \E item \in items :
          LET launched == on_conversation_item_added(calls[c].conversation_id, item) IN
          /\ calls' = [calls EXCEPT ![c] =
                [@ EXCEPT !.items = @ + 1,
                          !.saves = @ + Cardinality(Launched(launched, "save_message")),
                          !.last_item = [handled |-> TRUE, present |-> item.present,
                                         role |-> item.role, text |-> item.text,
                                         launched |-> launched]]]
          /\ tasks' = IF Launched(launched, "process_contact_info_from_message") # {}
                      THEN Append(tasks, NewTask(c)) ELSE tasks
    /\ UNCHANGED <<mergeRun, extractRun, convMeta, convContact, contacts>>

\* an item with text
ItemAdded(c, role, bound) ==
    ConversationItemAdded(c, {Item(TRUE, role, <<"h", "i">>)}, bound)

InitIdentity ==
    /\ mergeRun = MergeIdle /\ extractRun = ExtractIdle
    /\ \E job \in JobRaws, room \in Rooms, name \in RoomNames :
          calls = [c \in CallIds |-> IF c = 1 THEN NewCall(job, room, name) ELSE IdleCall]
    /\ NoStores

NextIdentity == ResolveIdentity(1)

SpecIdentity == InitIdentity /\ [][NextIdentity]_vars

\* the decoded job mapping and the decoded mapping of the room source in use
\* (empty when absent, malformed or not a mapping)
JobMapOf(call) ==
    IF call.job.kind \in {"json", "dict"} /\ call.job.is_map THEN call.job.map ELSE EmptyMap
RoomMapOf(call) ==
    LET raw == room_metadata_raw(call.room)
    IN  IF raw.kind \in {"json", "dict"} /\ raw.is_map THEN raw.map ELSE EmptyMap
NameIdOf(call) == IF StartsWithPrefix(call.name) THEN RemovePrefix(call.name) ELSE NONE
FirstNonEmpty(a, b, c) == IF Truthy(a) THEN a ELSE IF Truthy(b) THEN b ELSE c
SameId(x, y) == (Truthy(x) \/ Truthy(y)) => x = y

\* C6: each of agent_id, conversation_id, user_id is, independently, the job
\* value when that is non-empty, else the room value when that is non-empty,
\* else (conversation_id only) the id of a room name conversation:<id>.
IdentityFirstNonEmptyPerField ==
    \A c \in CallIds :
        calls[c].pc = "load_config" =>
            LET j == JobMapOf(calls[c])
                r == RoomMapOf(calls[c])
            IN  /\ SameId(calls[c].agent_id,
                          FirstNonEmpty(GetEither(j, "agentId", "agent_id"),
                                        GetEither(r, "agentId", "agent_id"), "unknown"))
                /\ SameId(calls[c].conversation_id,
                          FirstNonEmpty(GetEither(j, "conversationId", "conversation_id"),
                                        GetEither(r, "conversationId", "conversation_id"),
                                        NameIdOf(calls[c])))
                /\ SameId(calls[c].user_id,
                          FirstNonEmpty(GetEither(j, "userId", "user_id"),
                                        GetEither(r, "userId", "user_id"), NONE))

\* C7: whatever the job and room metadata are, identity resolution does not
\* raise: the call reaches the config load, with agent_id "unknown" exactly
\* when neither the job nor (when consulted) the room gave an agent id.
IdentityNeverRaises ==
    \A c \in CallIds :
        /\ calls[c].raised # "identity"
        /\ calls[c].pc \notin {"idle", "resolve"} =>
              /\ Truthy(calls[c].agent_id)
              /\ calls[c].agent_id = "unknown" <=>
                    /\ ~Truthy(GetEither(JobMapOf(calls[c]), "agentId", "agent_id"))
                    /\ ~Truthy(GetEither(RoomMapOf(calls[c]), "agentId", "agent_id"))

\* resolution went on to the config load with malformed job metadata and
\* malformed room metadata, on the fallback agent id
IdentityNeverRaisesWitness ==
    /\ calls[1].pc = "load_config"
    /\ calls[1].job = MalformedRaw
    /\ room_metadata_raw(calls[1].room) = MalformedRaw
    /\ calls[1].agent_id = "unknown"

(***************************************************************************)
(* Inputs of the merge: an existing metadata mapping (a field is missing,  *)
(* null or populated) and an extraction (a field is None or a string; a    *)
(* name can be the empty string after strip()).                            *)
(***************************************************************************)
ExistingValues == {MISSING, NONE, "old"}
ExtractedValues(f) ==
    IF f \in {"email", "phone"} THEN {NONE, "old", "new"} ELSE {NONE, EMPTY, "old", "new"}

MergeExistingInputs == [ContactFields -> ExistingValues]
MergeExtractedInputs ==
    {e \in [ContactFields -> {NONE, EMPTY, "old", "new"}] :
        \A f \in ContactFields : e[f] \in ExtractedValues(f)}

InitMerge ==
    /\ \E m \in MergeExistingInputs, e \in MergeExtractedInputs :
          mergeRun = [pc |-> "input", existing |-> m, extracted |-> e,
                      merged |-> m, again |-> m]
    /\ extractRun = ExtractIdle
    /\ calls = [c \in CallIds |-> IdleCall]
    /\ NoStores

\* updated = merge_contact_info(existing, extracted)
Merge ==
    /\ mergeRun.pc = "input"
    /\ mergeRun' = [mergeRun EXCEPT !.pc = "merged",
                        !.merged = merge_contact_info(mergeRun.existing, mergeRun.extracted)]
    /\ UNCHANGED <<extractRun, calls, stores>>

\* merge_contact_info(updated, extracted): the same extraction merged again
MergeAgain ==
    /\ mergeRun.pc = "merged"
    /\ mergeRun' = [mergeRun EXCEPT !.pc = "remerged",
                        !.again = merge_contact_info(mergeRun.merged, mergeRun.extracted)]
    /\ UNCHANGED <<extractRun, calls, stores>>

NextMerge == Merge \/ MergeAgain

SpecMerge == InitMerge /\ [][NextMerge]_vars

\* C4: merge_contact_info keeps every field that is non-empty in the existing
\* mapping; a field changes only when it was empty or missing in the existing
\* mapping and is non-empty in the extraction, and then takes the extraction's value.
MergeKeepsExisting ==
    mergeRun.pc # "input" =>
        \A f \in ContactFields :
            /\ Truthy(mergeRun.existing[f]) => mergeRun.merged[f] = mergeRun.existing[f]
            /\ mergeRun.merged[f] # mergeRun.existing[f] =>
                  /\ ~Truthy(mergeRun.existing[f])
                  /\ Truthy(mergeRun.extracted[f])
                  /\ mergeRun.merged[f] = mergeRun.extracted[f]

\* a merge where one populated field met a different extracted value and
\* another, empty, field was filled from the extraction
MergeKeepsExistingWitness ==
    /\ mergeRun.pc = "merged"
    /\ mergeRun.existing["email"] = "old" /\ mergeRun.extracted["email"] = "new"
    /\ mergeRun.existing["phone"] = NONE /\ mergeRun.merged["phone"] = "new"
    /\ mergeRun.existing["first_name"] = MISSING /\ mergeRun.merged["first_name"] = "new"

\* C5: merge_contact_info is idempotent: merging the same extraction into the
\* result of the merge gives that result again.
MergeIdempotent ==
    mergeRun.pc = "remerged" => mergeRun.again = mergeRun.merged

\* a second merge after a first merge that changed the mapping
MergeIdempotentWitness ==
    /\ mergeRun.pc = "remerged"
    /\ mergeRun.merged # mergeRun.existing
    /\ mergeRun.existing["email"] = "old" /\ mergeRun.extracted["email"] = "new"

(***************************************************************************)
(* One call, from dispatch to the end of its entrypoint, with the pipeline *)
(* events and the contact-processing task of its user item.                *)
(***************************************************************************)
CallJobRaws ==
    {JsonRaw(IdMap("camel", a, c, MISSING, co)) :
        a \in {MISSING, "agent-j"}, c \in {MISSING, "c1"}, co \in {MISSING, "A"}}
CallRooms ==
    {Room(AbsentRaw, FALSE, AbsentRaw, ApiError),
     Room(JsonRaw(IdMap("camel", "agent-r", "c2", MISSING, MISSING)), FALSE, AbsentRaw, ApiError)}
CallNames == {<<"lobby">>, <<PREFIX, "c3">>}
CallKBOutcomes == {KBResponse(500, "malformed", "missing", <<>>),
                   KBResponse(200, "map", "list", <<"t1">>)}
CallExtractions == {NoExtraction, Extraction("e1", NONE, NONE), Extraction(NONE, "p1", NONE)}

\* the contact store as earlier calls left it: empty, or with the row that a
\* task of company A inserted for the email "e1"
StoredContact ==
    contact_data("A", Extraction("e1", NONE, NONE),
                 merge_contact_info(EmptyMeta, Extraction("e1", NONE, NONE)),
                 "e1", NONE, "A")
CallContacts == {<<>>, <<StoredContact>>}

CallProbeOutcomes == {ProbeFailure("timeout"), ProbeResponse(200, "map", "list", 1)}

InitCall ==
    /\ mergeRun = MergeIdle /\ extractRun = ExtractIdle
    /\ \E job \in CallJobRaws, room \in CallRooms, name \in CallNames :
          calls = [c \in CallIds |-> IF c = 1 THEN NewCall(job, room, name) ELSE IdleCall]
    /\ tasks = <<>>
    /\ convMeta = [cv \in ConvIds |-> EmptyMeta]
    /\ convContact = [cv \in ConvIds |-> 0]
    /\ contacts \in CallContacts

\* no contact task of call c holds c's event loop
OnLoop(c) == ~Busy(c, 0)

\* the entrypoint, the signals, the session-start task and the pipeline events
\* of call c run on c's event loop
CallStep(c, bound) ==
    \/ OnLoop(c) /\ ResolveIdentity(c)
    \/ OnLoop(c) /\ LoadConfig(c)
    \/ OnLoop(c) /\ InitialKB(c)
    \/ OnLoop(c) /\ HistoryProbe(c, CallProbeOutcomes)
    \/ OnLoop(c) /\ CreatePipeline(c)
    \/ OnLoop(c) /\ StartSession(c)
    \/ OnLoop(c) /\ WaitFirst(c)
    \/ OnLoop(c) /\ AwaitSession(c)
    \/ OnLoop(c) /\ WaitSignal(c)
    \/ OnLoop(c) /\ CancelPending(c)
    \/ OnLoop(c) /\ AwaitCancel(c)
    \/ OnLoop(c) /\ Finally(c, CallCloseOutcomes)
    \/ OnLoop(c) /\ Shutdown(c)
    \/ OnLoop(c) /\ RoomDisconnected(c)
    \/ OnLoop(c) /\ SessionStarted(c)
    \/ OnLoop(c) /\ SessionFailed(c)
    \/ OnLoop(c) /\ SessionCancelled(c)
    \/ OnLoop(c) /\ UserTurnCompleted(c, CallKBOutcomes)
    \/ OnLoop(c) /\ ItemAdded(c, "user", bound)
    \/ OnLoop(c) /\ ItemAdded(c, "assistant", bound)

NextCall == CallStep(1, MaxCallItems) \/ TaskStep(CallExtractions)

SpecCall == InitCall /\ [][NextCall]_vars

(***************************************************************************)
(* Properties of one call.                                                 *)
(***************************************************************************)
JobCompanyOf(call) == GetEither(JobMapOf(call), "companyId", "company_id")
TasksOf(c) == {t \in DOMAIN tasks : tasks[t].call = c}

\* the config store answered call c with a row of another company than the
\* one the job metadata supplied
TenantMismatch(c) ==
    /\ calls[c].answer.kind = "row"
    /\ Truthy(JobCompanyOf(calls[c]))
    /\ calls[c].answer.company_id # JobCompanyOf(calls[c])

\* C1: on a tenant mismatch get_agent_config raises and the entrypoint ends
\* with that error: no KB query, no history probe, no prompt, no pipeline
\* session, no persistence task and no contact task exist for the call.
TenantMismatchFatal ==
    \A c \in CallIds :
        TenantMismatch(c) =>
            /\ calls[c].pc = "ended" /\ calls[c].raised = "config_mismatch"
            /\ calls[c].kb_queries = 0 /\ calls[c].probes = 0
            /\ calls[c].prompt = <<>>
            /\ calls[c].session = "none" /\ calls[c].session_task = "none"
            /\ calls[c].saves = 0 /\ TasksOf(c) = {}

\* the job said company A, the store answered with a row of company B
TenantMismatchFatalWitness ==
    /\ JobCompanyOf(calls[1]) = "A"
    /\ calls[1].answer = [kind |-> "row", company_id |-> "B"]
    /\ calls[1].raised = "config_mismatch"

\* C9: in fallback mode (agent_id "unknown") the call issues no KB query, no
\* contact extraction, no conversation-metadata update and no contact-store
\* request, whatever the other resolved fields are.
FallbackDisablesKBAndContacts ==
    \A c \in CallIds :
        calls[c].config = "fallback" =>
            /\ calls[c].kb_queries = 0
            /\ \A t \in TasksOf(c) :
                  tasks[t].did \cap {"extract", "meta_patch", "lookup", "fetch_meta",
                                     "update", "insert", "link"} = {}

\* the steps that need no event from outside: the entrypoint's own, and the
\* end of a session-start task that was cancelled
Progress(c) == Entrypoint(c) \/ SessionCancelled(c)
SessionCompleted(call) == call.session_task \in {"ok", "failed"}
Signalled(call) == call.shutdown_future = "done" \/ call.disconnect_future = "done"

BackgroundTasksEndWithCall ==
    \A c \in CallIds :
        calls[c].pc = "ended" => \A t \in TasksOf(c) : tasks[t].pc = "done"

\* C12: when the entrypoint ends after the race was started, none of the
\* session-start task, the shutdown future and the disconnect future is
\* still pending, running or being cancelled.
NoAwaitablePendingAtEnd ==
    \A c \in CallIds :
        (calls[c].pc = "ended" /\ calls[c].session_task # "none") =>
            \A n \in Awaitables : IsDone(calls[c], n)

\* the shutdown signal came first: the running session task and the pending
\* disconnect future were cancelled, and the entrypoint ended
NoAwaitablePendingAtEndWitness ==
    /\ calls[1].pc = "ended"
    /\ calls[1].shutdown_future = "done"
    /\ calls[1].session_task = "cancelled"
    /\ calls[1].disconnect_future = "cancelled"

\* C13: a failure of the session-start task is captured and re-raised: the
\* entrypoint never waits for a signal, and never ends, with a failed session
\* task whose error was not captured.
SessionErrorReported ==
    \A c \in CallIds :
        (calls[c].session_task = "failed" /\ calls[c].pc \in {"wait_signal", "ended"}) =>
            (calls[c].captured /\ calls[c].raised = "session")

\* C14: when the entrypoint ends with a tenant mismatch or with a failure of
\* the construction of the pipeline session, the error was captured.
FatalFailuresCaptured ==
    \A c \in CallIds :
        (calls[c].pc = "ended" /\ calls[c].raised \in {"config_mismatch", "pipeline"}) =>
            calls[c].captured

\* C15: while a contact-processing task of a call has a request outstanding,
\* the call's event loop can still run the handler of a pipeline event: a
\* shutdown signal that has not fired yet can be handled.
BackgroundNeverBlocksEvents ==
    \A t \in DOMAIN tasks :
        LET c == tasks[t].call IN
        (/\ tasks[t].pc \in SyncPcs \cup AsyncPcs
         /\ Registered(calls[c]) /\ calls[c].shutdown_future = "pending")
            => ENABLED (OnLoop(c) /\ Shutdown(c))

(***************************************************************************)
(* Several started calls and the contact-processing tasks of their user    *)
(* items, over the shared conversation service and contact store.          *)
(***************************************************************************)
\* a call whose session has started and whose entrypoint waits for a signal
ActiveCall(agent, conv, company) ==
    [NewCall(JsonRaw(IdMap("camel", agent, conv, MISSING, company)),
             Room(AbsentRaw, FALSE, AbsentRaw, ApiError), <<"lobby">>)
        EXCEPT !.pc = "wait_signal",
               !.agent_id = agent, !.conversation_id = conv, !.company_id = company,
               !.config = "fetched", !.answer = [kind |-> "row", company_id |-> company],
               !.kb_enabled = TRUE, !.kb_queries = 1, !.probes = 1, !.is_new = TRUE,
               !.prompt = compose_prompt(NONE, TRUE),
               !.session = "open", !.session_task = "ok",
               !.detector = "loaded", !.vad = "silero", !.turn_detection = "multilingual",
               !.disconnect_handler = TRUE,
               !.greeting_task = "done",
               !.replies = send_initial_greeting_after_start(TRUE),
               !.shutdown_future = "pending", !.disconnect_future = "pending",
               !.pending = {"shutdown", "disconnect"}]

Extractions ==
    {Extraction(e, ph, fn) : e \in {NONE, "e1", "e2"}, ph \in {NONE, "p1"}, fn \in {NONE, "Ann"}}

InitContacts ==
    /\ mergeRun = MergeIdle /\ extractRun = ExtractIdle
    /\ \E ctx \in {<<"A", "c1">>, <<"A", "c2">>, <<"B", "c2">>} :
          calls = [c \in CallIds |->
                      IF c = 1 THEN ActiveCall("agent-j", "c1", "A")
                      ELSE ActiveCall("agent-j", ctx[2], ctx[1])]
    /\ NoStores

NextContacts ==
    \/ \E c \in CallIds : OnLoop(c) /\ ItemAdded(c, "user", MaxTasks)
    \/ TaskStep(Extractions)

SpecContacts == InitContacts /\ [][NextContacts]_vars

(***************************************************************************)
(* Properties of the contact-processing tasks.                             *)
(***************************************************************************)
\* C2: the contact store never holds two rows of one company with the same
\* email, nor two with the same phone.
ContactsUniqueByKey ==
    \A i, j \in DOMAIN contacts :
        (i # j /\ contacts[i].company_id = contacts[j].company_id) =>
            /\ ~(Truthy(contacts[i].email) /\ contacts[i].email = contacts[j].email)
            /\ ~(Truthy(contacts[i].phone) /\ contacts[i].phone = contacts[j].phone)

\* C3: a contact field of a conversation's stored metadata that is non-empty
\* keeps its value in every step.
MetadataOnlyAdditive ==
    [][\A cv \in ConvIds, f \in ContactFields :
          Truthy(convMeta[cv][f]) => convMeta'[cv][f] = convMeta[cv][f]]_vars

\* C8: every row the contact store returned to a task, and every row a task
\* inserted or updated, belongs to the company of the task's call.
ContactAccessScoped ==
    /\ \A t \in DOMAIN tasks :
          \A i \in tasks[t].seen : contacts[i].company_id = CallOf(t).company_id
    /\ \A i \in DOMAIN contacts : contacts[i].writers \subseteq {contacts[i].company_id}

\* calls of companies A and B extracted the same email: B's lookup did not
\* match A's row, and each company got its own row
ContactAccessScopedWitness ==
    /\ Len(contacts) = 2
    /\ contacts[1].email = "e1" /\ contacts[2].email = "e1"
    /\ contacts[1].company_id # contacts[2].company_id
    /\ \A t \in DOMAIN tasks : tasks[t].pc = "done" /\ "insert" \in tasks[t].did

(***************************************************************************)
(* User turns of a started call, for every outcome of the search request.  *)
(***************************************************************************)
MaxResults == 2
KBItems == {MISSING, EMPTY, "t1", "t2", BADITEM}
KBItemLists == UNION {[1..n -> KBItems] : n \in 0..MaxResults}
KBOutcomes ==
    {KBFailure(k) : k \in {"timeout", "client_error", "other_error"}}
        \cup {KBResponse(st, body, "missing", <<>>) :
                 st \in {200, 404, 500}, body \in {"malformed", "not_map", "map"}}
        \cup {KBResponse(st, "map", "not_list", <<>>) : st \in {200, 404, 500}}
        \cup {KBResponse(st, "map", "list", items) :
                 st \in {200, 404, 500}, items \in KBItemLists}

\* a started call in fallback mode: no KB
FallbackActiveCall(conv, company) ==
    [ActiveCall("unknown", conv, company)
        EXCEPT !.config = "fallback", !.answer = NoAnswer,
               !.kb_enabled = FALSE, !.kb_queries = 0]

InitKB ==
    /\ mergeRun = MergeIdle /\ extractRun = ExtractIdle
    /\ \E call \in {ActiveCall("agent-j", "c1", "A"), FallbackActiveCall("c1", "A")} :
          calls = [c \in CallIds |-> IF c = 1 THEN call ELSE IdleCall]
    /\ NoStores

\* the messages of a turn: a text_content of None, of no text or of some
\* text, a content only, or neither attribute
TurnMessages ==
    {TurnMessage("text_content", v) :
        v \in {JsonNull, JsonStr(<<>>), JsonStr(<<" ">>), JsonStr(<<"h", "i">>)}}
        \cup {TurnMessage("content", v) : v \in {JsonNull, JsonStr(<<>>), JsonStr(<<"h", "i">>)}}
        \cup {TurnMessage("none", JsonNull)}

NextKB == OnUserTurnCompleted(1, TurnMessages, KBOutcomes)

SpecKB == InitKB /\ [][NextKB]_vars

\* the outcomes the retriever answers with None: no response, a status other
\* than 200, a body that is not the expected JSON, no results, no text
KBAbsent(o) ==
    \/ o.kind # "response" \/ o.status # 200
    \/ o.body # "map" \/ o.results # "list"
    \/ \E i \in DOMAIN o.items : o.items[i] = BADITEM
    \/ \A i \in DOMAIN o.items : ~Truthy(DictGet(o.items[i]))

\* C16: for every outcome of the search request the retriever raises nothing
\* into the turn handler; when the outcome is a failure, a status other than
\* 200, a malformed body or a result set without text, no context message is
\* added to the turn; the prompt is the composed one after every turn.
KBNeverRaises ==
    \A c \in CallIds :
        calls[c].last_turn.queried =>
            /\ ~calls[c].last_turn.raised
            /\ KBAbsent(calls[c].last_turn.outcome) => calls[c].last_turn.added = <<>>
            /\ calls[c].prompt = compose_prompt(calls[c].initial_kb, calls[c].is_new)

\* the search endpoint answered 500 with a body that is not JSON
KBNeverRaisesWitness ==
    /\ calls[1].turns = 1 /\ calls[1].last_turn.queried
    /\ calls[1].last_turn.outcome = KBResponse(500, "malformed", "missing", <<>>)
    /\ calls[1].last_turn.added = <<>>

(***************************************************************************)
(* The greeting of a call, from the construction of the pipeline on.       *)
(***************************************************************************)
\* a call whose history probe has answered
ProbedCall(kb, is_new) ==
    [ActiveCall("agent-j", "c1", "A")
        EXCEPT !.pc = "pipeline", !.initial_kb = kb, !.is_new = is_new,
               !.prompt = <<>>, !.session = "none", !.session_task = "none",
               !.detector = "none", !.vad = NONE, !.turn_detection = NONE,
               !.disconnect_handler = FALSE,
               !.greeting_task = "none", !.replies = <<>>,
               !.shutdown_future = "none", !.disconnect_future = "none",
               !.pending = {}]

InitGreeting ==
    /\ mergeRun = MergeIdle /\ extractRun = ExtractIdle
    /\ \E kb \in {NONE, "snippet"}, is_new \in BOOLEAN :
          calls = [c \in CallIds |-> IF c = 1 THEN ProbedCall(kb, is_new) ELSE IdleCall]
    /\ NoStores

NextGreeting ==
    \/ CreatePipeline(1)
    \/ StartSession(1)
    \/ WaitFirst(1)
    \/ AwaitSession(1)
    \/ WaitSignal(1)
    \/ CancelPending(1)
    \/ AwaitCancel(1)
    \/ Finally(1, CallCloseOutcomes)
    \/ Shutdown(1)
    \/ RoomDisconnected(1)
    \/ SessionStarted(1)
    \/ SessionFailed(1)
    \/ SessionCancelled(1)
    \/ GreetingBegin(1)
    \/ GreetingReply(1)

SpecGreeting == InitGreeting /\ [][NextGreeting]_vars

\* C17: at most one generate_reply is ever requested, always with
\* interruptions disabled and only in a new conversation; once the greeting
\* task of a call has finished, exactly one was requested when the
\* conversation is new and none when it is not.
GreetingPolicy ==
    \A c \in CallIds :
        /\ Len(calls[c].replies) <= 1
        /\ \A i \in DOMAIN calls[c].replies : ~calls[c].replies[i].allow_interruptions
        /\ calls[c].replies # <<>> => calls[c].is_new
        /\ calls[c].greeting_task = "done" =>
              Len(calls[c].replies) = (IF calls[c].is_new THEN 1 ELSE 0)

\* a new conversation whose greeting task has finished: one request
GreetingPolicyWitness ==
    /\ calls[1].is_new /\ calls[1].greeting_task = "done"
    /\ calls[1].replies = <<[allow_interruptions |-> FALSE]>>

(***************************************************************************)
(* The composition of the system prompt, for every agent config.           *)
(***************************************************************************)
ConfigNames == {MISSING, NONE, EMPTY, "Ann"}
ConfigDescriptions == {MISSING, NONE, EMPTY, "desc"}
ConfigPrompts == {MISSING, NONE, EMPTY, "base", "base_kb"}
AgentConfigs ==
    {AgentConfig(n, d, sp) :
        n \in ConfigNames, d \in ConfigDescriptions, sp \in ConfigPrompts}

InitPrompt ==
    /\ mergeRun = MergeIdle /\ extractRun = ExtractIdle
    /\ \E cfg \in AgentConfigs, kb \in {NONE, EMPTY, "snippet"}, is_new \in BOOLEAN :
          calls = [c \in CallIds |->
                      IF c = 1 THEN [ProbedCall(kb, is_new) EXCEPT !.cfg = cfg]
                      ELSE IdleCall]
    /\ NoStores

NextPrompt == CreatePipeline(1)

SpecPrompt == InitPrompt /\ [][NextPrompt]_vars

ContinuitySections == {"greeting", "continuity"}
SectionsIn(prompt, tags) == {i \in DOMAIN prompt : prompt[i] \in tags}

\* C18: a composed prompt holds exactly one continuity section, the greeting
\* variant when the conversation is new and the no-re-greet variant when it
\* is not.
OneContinuitySection ==
    \A c \in CallIds :
        calls[c].prompt # <<>> =>
            /\ Cardinality(SectionsIn(calls[c].prompt, ContinuitySections)) = 1
            /\ \A i \in SectionsIn(calls[c].prompt, ContinuitySections) :
                  calls[c].prompt[i] = (IF calls[c].is_new THEN "greeting" ELSE "continuity")

\* a continued conversation of an agent without name, description or base
\* prompt, with an initial KB snippet
OneContinuitySectionWitness ==
    /\ calls[1].pc = "start" /\ ~calls[1].is_new
    /\ calls[1].cfg = AgentConfig(EMPTY, EMPTY, EMPTY)
    /\ calls[1].prompt = <<"kb", "multilingual", "continuity", "contact", "spoken">>

(***************************************************************************)
(* One extraction, for every model response of the bounded sets.           *)
(***************************************************************************)
MaxPhoneLen == 11
MaxShortPhoneLen == 4
PhoneExample ==
    <<"+", "1", " ", "(", "5", "5", "5", ")", " ", "1", "2", "3", "-", "4", "5", "6", "7">>
\* long values over one digit and one separator, short ones over two digits
\* and two separators, the literal null, and the example of the documentation
PhoneValues ==
    {JsonMissing, JsonNull, JsonStr(NullLiteral), JsonStr(PhoneExample)}
        \cup {JsonStr(s) : s \in UNION {[1..n -> {"5", "-"}] : n \in 0..MaxPhoneLen}}
        \cup {JsonStr(s) : s \in UNION {[1..n -> {"1", "5", "-", " "}] :
                                           n \in 0..MaxShortPhoneLen}}
NameValues ==
    {JsonMissing, JsonNull, JsonStr(<<>>), JsonStr(NullLiteral),
     JsonStr(<<"A", "n", "n">>), JsonStr(<<" ", "A", "n", "n", " ">>), JsonStr(<<" ">>)}
EmailValues ==
    {JsonMissing, JsonNull, JsonStr(<<>>), JsonStr(NullLiteral),
     JsonStr(<<"a", "@", "b">>), JsonStr(<<" ", "A", "@", "B", " ">>), JsonStr(<<"a", "b">>)}
ConfidenceValues ==
    {Confidence("missing", 0), Confidence("null", 0)}
        \cup {NumConfidence(v) : v \in {0, 69, 70, 71, 100}}
TenDigits == JsonStr([i \in 1..MinPhoneDigits |-> "5"])

ModelResponses ==
    {ModelResponse(e, ph, fn, ln, JsonNull, conf) :
        e \in {JsonNull, JsonStr(<<"a", "@", "b">>)}, ph \in {JsonNull, TenDigits},
        fn \in NameValues, ln \in NameValues, conf \in ConfidenceValues}
    \cup {ModelResponse(JsonNull, ph, JsonNull, JsonNull, JsonNull, conf) :
             ph \in PhoneValues,
             conf \in {Confidence("missing", 0), Confidence("null", 0), NumConfidence(70)}}
    \cup {ModelResponse(e, JsonNull, JsonNull, JsonNull, co, conf) :
             e \in EmailValues, co \in NameValues, conf \in ConfidenceValues}

LLMOutcomes ==
    {LLMOutcome(k, EmptyContactInfo) : k \in {"no_key", "error", "bad_json"}}
        \cup {LLMOutcome("object", r) : r \in ModelResponses}

InitExtract ==
    /\ mergeRun = MergeIdle
    /\ \E o \in LLMOutcomes :
          extractRun = [pc |-> "input", outcome |-> o, raised |-> FALSE,
                        extracted |-> EmptyContactInfo]
    /\ calls = [c \in CallIds |-> IdleCall]
    /\ NoStores

ExtractContactInfo ==
    /\ extractRun.pc = "input"
    /\ LET r == extract_contact_info_llm(extractRun.outcome) IN
       extractRun' = [extractRun EXCEPT !.pc = "returned", !.raised = r.raised,
                                        !.extracted = r.extracted]
    /\ UNCHANGED <<mergeRun, calls, stores>>

NextExtract == ExtractContactInfo

SpecExtract == InitExtract /\ [][NextExtract]_vars

\* the response of a returned extraction, and its confidence as a number
Returned == extractRun.pc = "returned" /\ extractRun.outcome.kind = "object"
ClaimedConfidence ==
    IF extractRun.outcome.result.confidence.kind = "missing" THEN 0
    ELSE extractRun.outcome.result.confidence.value
NumericConfidence == extractRun.outcome.result.confidence.kind \in {"missing", "num"}
NameFields == {"first_name", "last_name"}

\* C19 as stated: a name is dropped below 0.7 (a response without confidence
\* counting as 0) and every non-empty name is retained from 0.7 on.
NamesRetainedWhenNonEmpty ==
    (Returned /\ NumericConfidence) =>
        \A f \in NameFields :
            LET v == extractRun.outcome.result[f] IN
            /\ ClaimedConfidence < NameThreshold => extractRun.extracted[f] = JsonNull
            /\ (ClaimedConfidence >= NameThreshold /\ v.kind = "str" /\ v.chars # <<>>)
                  => extractRun.extracted[f] # JsonNull

\* C19, amended: a name is dropped below 0.7 (a response without confidence
\* counting as 0); from 0.7 on, exactly 0.7 included, a name is retained,
\* stripped of surrounding blanks, when it is non-empty and is not the
\* literal string "null", and is dropped otherwise.
NamesGatedByConfidence ==
    (Returned /\ NumericConfidence) =>
        \A f \in NameFields :
            LET v == extractRun.outcome.result[f] IN
            /\ ClaimedConfidence < NameThreshold => extractRun.extracted[f] = JsonNull
            /\ ClaimedConfidence >= NameThreshold =>
                  extractRun.extracted[f] =
                      (IF v.kind = "str" /\ v.chars # <<>> /\ v.chars # NullLiteral
                       THEN JsonStr(strip(v.chars)) ELSE JsonNull)

\* a first name retained at exactly 0.7, next to a last name "null" that is dropped
NamesGatedByConfidenceWitness ==
    /\ Returned
    /\ extractRun.outcome.result.confidence = NumConfidence(NameThreshold)
    /\ extractRun.outcome.result.first_name = JsonStr(<<" ", "A", "n", "n", " ">>)
    /\ extractRun.outcome.result.last_name = JsonStr(NullLiteral)
    /\ extractRun.extracted.first_name = JsonStr(<<"A", "n", "n">>)
    /\ extractRun.extracted.last_name = JsonNull

\* C20: for a response whose validation completes (its confidence is a
\* number or absent), the phone returned is the subsequence of the digit
\* characters of the model's phone value when that subsequence has at least
\* 10 digits, and there is no phone otherwise.
PhoneIsDigitSubsequence ==
    (Returned /\ NumericConfidence) =>
        LET v == extractRun.outcome.result.phone
            d == SelectSeq(v.chars, IsDigit)
        IN  extractRun.extracted.phone =
                (IF v.kind = "str" /\ Len(d) >= MinPhoneDigits THEN JsonStr(d) ELSE JsonNull)

\* "+1 (555) 123-4567" gives "15551234567"
PhoneIsDigitSubsequenceWitness ==
    /\ Returned
    /\ extractRun.outcome.result.phone = JsonStr(PhoneExample)
    /\ extractRun.extracted.phone =
          JsonStr(<<"1", "5", "5", "5", "1", "2", "3", "4", "5", "6", "7">>)

(***************************************************************************)
(* The item events of a started call, for every text of the bounded sets.  *)
(***************************************************************************)
MaxTextLen == 6
TextChars == {"[", "]", "'", "\"", "a", " "}
ItemTexts == UNION {[1..n -> TextChars] : n \in 0..MaxTextLen}
HelloThere == <<"h", "e", "l", "l", "o", " ", "t", "h", "e", "r", "e">>
ItemRoles == {"user", "assistant", "system", ""}
ItemEvents ==
    {Item(TRUE, "user", t) : t \in ItemTexts}
        \cup {Item(TRUE, role, <<"[", q>> \o HelloThere \o <<q, "]">>) :
                 role \in ItemRoles, q \in {"'", "\""}}
        \cup {Item(p, role, t) :
                 p \in BOOLEAN, role \in ItemRoles,
                 t \in {<<>>, <<" ">>, <<"a">>, <<"[", "'", "'", "]">>, <<"[", "]">>}}

\* a started call for which no conversation id was resolved
AnonymousActiveCall == [ActiveCall("agent-j", "c1", "A") EXCEPT !.conversation_id = NONE]

InitItems ==
    /\ mergeRun = MergeIdle /\ extractRun = ExtractIdle
    /\ \E call \in {ActiveCall("agent-j", "c1", "A"), AnonymousActiveCall} :
          calls = [c \in CallIds |-> IF c = 1 THEN call ELSE IdleCall]
    /\ NoStores

NextItems == ConversationItemAdded(1, ItemEvents, MaxCallItems)

SpecItems == InitItems /\ [][NextItems]_vars

\* the text is a list in brackets wrapping the string x in the quote q
WrapsOne(text, q, x) == text = <<"[", q>> \o x \o <<q, "]">> /\ ~Contains(x, q)
\* the item of call c was handled to the point of the cleaning
Cleaned(c) ==
    /\ calls[c].last_item.handled /\ calls[c].last_item.present
    /\ Truthy(calls[c].conversation_id) /\ calls[c].last_item.text # <<>>
SavesOf(c) ==
    {calls[c].last_item.launched[i] :
        i \in Launched(calls[c].last_item.launched, "save_message")}

\* C21: an item whose text is a bracketed list wrapping one non-empty string
\* in single or double quotes is handed to persistence as that string; a
\* text that, stripped, does not both start with [ and end with ] is handed
\* over stripped and otherwise unchanged; the create request carries the
\* content stripped.
ItemTextNormalized ==
    \A c \in CallIds :
        Cleaned(c) =>
            LET text == calls[c].last_item.text
                s == strip(text)
                n == Len(s)
            IN  /\ \A q \in {"'", "\""} :
                      (n > 4 /\ WrapsOne(text, q, SubSeq(text, 3, n - 2))) =>
                          \E m \in SavesOf(c) :
                              /\ m.content = SubSeq(text, 3, n - 2)
                              /\ save_message_content(m.content) = strip(SubSeq(text, 3, n - 2))
                /\ (n > 0 /\ ~(s[1] = "[" /\ s[n] = "]")) =>
                       \E m \in SavesOf(c) : m.content = s

\* "['hello there']" is handed over as "hello there"
ItemTextNormalizedWitness ==
    /\ Cleaned(1)
    /\ calls[1].last_item.text = <<"[", "'">> \o HelloThere \o <<"'", "]">>
    /\ \E m \in SavesOf(1) : m.content = HelloThere

\* C27: with a known conversation id, an item whose cleaned text is empty
\* launches nothing; any other item launches exactly one save_message with
\* message type audio, source voice_call and sender type user for the role
\* user and agent for every other role, and exactly one contact-processing
\* task iff the sender type is user, and nothing else.
ItemLaunches ==
    \A c \in CallIds :
        Cleaned(c) =>
            LET item == calls[c].last_item
                launched == item.launched
                sender == IF item.role = "user" THEN "user" ELSE "agent"
            IN  IF clean_content(item.text) = <<>>
                THEN launched = <<>>
                ELSE /\ Cardinality(Launched(launched, "save_message")) = 1
                     /\ \A m \in SavesOf(c) :
                           /\ m.message_type = "audio" /\ m.source = "voice_call"
                           /\ m.sender_type = sender
                           /\ m.content = clean_content(item.text)
                     /\ Cardinality(Launched(launched, "process_contact_info_from_message"))
                           = (IF sender = "user" THEN 1 ELSE 0)
                     /\ Len(launched) = (IF sender = "user" THEN 2 ELSE 1)

\* a system item is saved as the agent's and starts no contact processing
ItemLaunchesWitness ==
    /\ Cleaned(1) /\ calls[1].last_item.role = "system"
    /\ Len(calls[1].last_item.launched) = 1
    /\ \E m \in SavesOf(1) : m.sender_type = "agent"

(***************************************************************************)
(* One contact-processing task, from the completion request to the stores. *)
(***************************************************************************)
AnnAt(conf) ==
    ModelResponse(JsonStr(<<"a", "@", "b">>), JsonStr([i \in 1..MinPhoneDigits |-> "5"]),
                  JsonStr(<<"A", "n", "n">>), JsonNull, JsonNull, conf)
TaskOutcomes ==
    {LLMOutcome(k, EmptyContactInfo) : k \in {"no_key", "error", "bad_json"}}
        \cup {LLMOutcome("object", AnnAt(conf)) : conf \in ConfidenceValues}
        \cup {LLMOutcome("object", r) :
                 r \in {EmptyContactInfo,
                        ModelResponse(JsonNull, JsonStr([i \in 1..MinPhoneDigits |-> "5"]),
                                      JsonNull, JsonNull, JsonNull, NumConfidence(0)),
                        ModelResponse(JsonNull, JsonNull, JsonNull, JsonNull, JsonNull,
                                      Confidence("null", 0))}}

InitTask ==
    /\ mergeRun = MergeIdle /\ extractRun = ExtractIdle
    /\ calls = [c \in CallIds |-> IF c = 1 THEN ActiveCall("agent-j", "c1", "A") ELSE IdleCall]
    /\ tasks = <<NewTask(1)>>
    /\ convMeta = [cv \in ConvIds |-> EmptyMeta]
    /\ convContact = [cv \in ConvIds |-> 0]
    /\ contacts \in CallContacts

NextTask ==
    \/ TaskStart(1)
    \/ TaskHistory(1)
    \/ TaskExtractLLM(1, TaskOutcomes)
    \/ TaskConvGet(1)
    \/ TaskPatch(1)
    \/ TaskLookupEmail(1)
    \/ TaskLookupPhone(1)
    \/ TaskFetchMeta(1)
    \/ TaskUpdate(1)
    \/ TaskInsert(1)
    \/ TaskLink(1)

SpecTask == InitTask /\ [][NextTask]_vars

\* the completion request failed, or its answer is not JSON or is ill-typed
ExtractionFailed(o) ==
    \/ o.kind \in {"no_key", "error", "bad_json"}
    \/ o.kind = "object" /\ o.result.confidence.kind = "null"
StoreRequests == {"conv_get", "meta_patch", "lookup", "fetch_meta", "update", "insert", "link"}

\* C22: when the extraction fails (no API key, failed completion, answer
\* that is not JSON, ill-typed answer) the extractor raises nothing and
\* returns the empty record, and the task ends without any request to the
\* conversation metadata or the contact store, which stay as they were.
ExtractionFailureContained ==
    \A t \in DOMAIN tasks :
        ExtractionFailed(tasks[t].outcome) =>
            /\ ~tasks[t].llm_raised
            /\ tasks[t].extracted = NoExtraction /\ ~has_contact_info(tasks[t].extracted)
            /\ tasks[t].pc = "done"
            /\ tasks[t].did \cap StoreRequests = {}
            /\ convMeta = [cv \in ConvIds |-> EmptyMeta]
            /\ convContact = [cv \in ConvIds |-> 0]
            /\ contacts \in CallContacts

\* an answer with email, phone and name whose confidence is null
ExtractionFailureContainedWitness ==
    /\ tasks[1].pc = "done"
    /\ tasks[1].outcome = LLMOutcome("object", AnnAt(Confidence("null", 0)))
    /\ tasks[1].extracted = NoExtraction

(***************************************************************************)
(* The preparation of a call: initial KB query, history probe, pipeline.   *)
(***************************************************************************)
MaxMessages == 2
ProbeOutcomes ==
    {ProbeFailure(k) : k \in {"timeout", "client_error", "other_error"}}
        \cup {ProbeResponse(st, body, "missing", 0) :
                 st \in {200, 404, 500}, body \in {"malformed", "not_map", "map"}}
        \cup {ProbeResponse(st, "map", "null", 0) : st \in {200, 404, 500}}
        \cup {ProbeResponse(st, "map", "list", n) :
                 st \in {200, 404, 500}, n \in 0..MaxMessages}

\* a call whose config is loaded, with or without a conversation id
LoadedCall(conv) ==
    [ProbedCall(NONE, TRUE) EXCEPT !.pc = "initial_kb", !.conversation_id = conv,
                                   !.probes = 0, !.kb_queries = 0]

InitPrepare ==
    /\ mergeRun = MergeIdle /\ extractRun = ExtractIdle
    /\ \E conv \in {NONE, EMPTY, "c1"} :
          calls = [c \in CallIds |-> IF c = 1 THEN LoadedCall(conv) ELSE IdleCall]
    /\ NoStores

NextPrepare ==
    \/ InitialKB(1)
    \/ HistoryProbe(1, ProbeOutcomes)
    \/ CreatePipeline(1)

SpecPrepare == InitPrepare /\ [][NextPrepare]_vars

Probed(c) == calls[c].pc \in {"pipeline", "start", "ended"}
\* the history request was answered 200 with a list of at least one message
ListsMessages(o) ==
    /\ o.kind = "response" /\ o.status = 200 /\ o.body = "map"
    /\ o.messages = "list" /\ o.count >= 1

\* C23: after the probe, is_new_conversation is true when no conversation id
\* was resolved and after every failure of the history request (no response,
\* a status other than 200, a body that cannot be read); it is false only
\* after a 200 response that lists at least one message.
NoveltyDefaultsToNew ==
    \A c \in CallIds :
        Probed(c) =>
            /\ ~Truthy(calls[c].conversation_id) => calls[c].is_new /\ calls[c].probes = 0
            /\ (calls[c].probes = 1 /\ ~ListsMessages(calls[c].probe)) => calls[c].is_new

\* the history request was answered 500 and the prompt greets
NoveltyDefaultsToNewWitness ==
    /\ calls[1].pc = "start" /\ calls[1].probes = 1
    /\ calls[1].probe = ProbeResponse(500, "map", "list", 1)
    /\ calls[1].is_new /\ \E i \in DOMAIN calls[1].prompt : calls[1].prompt[i] = "greeting"

\* C25: a 200 response that carries no or one message gives
\* is_new_conversation = true.
OneHistoryRowIsNew ==
    \A c \in CallIds :
        (/\ Probed(c) /\ calls[c].probes = 1
         /\ calls[c].probe.kind = "response" /\ calls[c].probe.status = 200
         /\ calls[c].probe.body = "map" /\ calls[c].probe.messages = "list"
         /\ calls[c].probe.count <= 1)
            => calls[c].is_new

\* the request a task waits for at each of its positions
RequestAt(pc) ==
    CASE pc = "history" -> "history"
      [] pc = "llm" -> "completion"
      [] pc = "conv_get" -> "conv_get"
      [] pc = "patch" -> "meta_patch"
      [] pc \in {"lookup_email", "lookup_phone"} -> "lookup"
      [] pc = "fetch_meta" -> "fetch_meta"
      [] pc = "update" -> "update"
      [] pc = "insert" -> "insert"
      [] pc = "link" -> "link"

\* the timeout, in seconds, that the code passes with each request, 0 when it
\* passes none: aiohttp.ClientTimeout(total=5) on the chat-service and KB
\* requests; nothing on the OpenAI completion, the supabase queries and the
\* LiveKit list_rooms request
explicit_timeout(request) ==
    IF request \in {"history", "conv_get", "meta_patch", "link", "kb_search",
                    "probe", "save_message", "status_update"}
    THEN 5 ELSE 0

\* C24: every request a task of a call waits for carries an explicit timeout.
RequestsBounded ==
    \A t \in DOMAIN tasks :
        tasks[t].pc \in SyncPcs \cup AsyncPcs =>
            explicit_timeout(RequestAt(tasks[t].pc)) > 0

\* C26: a greeting generate_reply is requested only when the session-start
\* task has completed successfully.
GreetingAfterStart ==
    [][\A c \in CallIds :
          calls'[c].replies # calls[c].replies => calls[c].session_task = "ok"]_vars

(***************************************************************************)
(* Teardown on its own: a call whose pipeline session is constructed, with *)
(* or without a conversation id and chat service settings; every outcome   *)
(* of the close; the entrypoint task may be cancelled.                     *)
(***************************************************************************)
CloseOutcomes == {CloseOutcome(TRUE, FALSE), CloseOutcome(TRUE, TRUE), CloseOutcome(FALSE, TRUE)}

ConstructedCall(conv, configured) ==
    [ProbedCall(NONE, TRUE)
        EXCEPT !.pc = "start", !.conversation_id = conv, !.chat_configured = configured,
               !.prompt = compose_prompt(NONE, TRUE),
               !.session = "open", !.disconnect_handler = TRUE,
               !.shutdown_future = "pending", !.disconnect_future = "pending",
               !.items = 0, !.saves = 0]

InitClose ==
    /\ mergeRun = MergeIdle /\ extractRun = ExtractIdle
    /\ \E conv \in {NONE, EMPTY, "c1"}, configured \in BOOLEAN :
          calls = [c \in CallIds |->
                      IF c = 1 THEN ConstructedCall(conv, configured) ELSE IdleCall]
    /\ NoStores

\* the steps the program takes by itself once they are enabled
CloseProgress ==
    \/ StartSession(1)
    \/ WaitFirst(1)
    \/ AwaitSession(1)
    \/ WaitSignal(1)
    \/ CancelPending(1)
    \/ AwaitCancel(1)
    \/ Finally(1, CloseOutcomes)
    \/ SessionCancelled(1)
    \/ UpdateConversationStatus(1)

NextClose ==
    \/ StartSession(1)
    \/ WaitFirst(1)
    \/ AwaitSession(1)
    \/ WaitSignal(1)
    \/ CancelPending(1)
    \/ AwaitCancel(1)
    \/ Finally(1, CloseOutcomes)
    \/ SessionCancelled(1)
    \/ UpdateConversationStatus(1)
    \/ Shutdown(1)
    \/ RoomDisconnected(1)
    \/ SessionStarted(1)
    \/ SessionFailed(1)
    \/ EntrypointCancelled(1)
    \/ ConversationItemAdded(1, {Item(TRUE, "agent", HelloThere)}, 1)

SpecClose == InitClose /\ [][NextClose]_vars

\* the loop runs what is ready: the entrypoint, a cancelled session task and
\* a created update task are not postponed forever
SpecCloseFair == SpecClose /\ WF_vars(CloseProgress)

\* C28: in a call with a known conversation id, once the shutdown signal or
\* the disconnect signal has fired a request marking the conversation ended,
\* with an ended_at timestamp, is eventually issued.
SignalLeadsToStatusUpdate ==
    \A c \in CallIds :
        (Signalled(calls[c]) /\ Truthy(calls[c].conversation_id))
            ~> (\E i \in DOMAIN calls[c].status_requests :
                    /\ calls[c].status_requests[i].status = "ended"
                    /\ calls[c].status_requests[i].ended_at # NONE)

\* the entrypoint of a call has left the try block of 755-814
Exited(call) == call.pc = "ended" /\ call.session_task # "none"

OneQueryPerTurn ==
    /\ [](\A c \in CallIds :
            LET t == calls[c].last_turn
                text == IF t.message.attr = "none" THEN JsonStr(<<>>)
                        ELSE IF t.message.attr = "content" /\ t.message.value.kind = "null"
                        THEN JsonStr(<<"N", "o", "n", "e">>)
                        ELSE t.message.value
            IN  calls[c].turns >= 1 =>
                  IF calls[c].kb_enabled /\ Truthy(calls[c].company_id)
                        /\ text.kind = "str" /\ text.chars # <<>>
                  THEN /\ t.queried /\ t.query = text
                       /\ t.messages = (IF KBAbsent(t.outcome) THEN 0 ELSE 1)
                       /\ (t.messages = 1) = (t.added # <<>>)
                  ELSE ~t.queried /\ t.messages = 0 /\ t.added = <<>>)
    /\ [][\A c \in CallIds :
            calls'[c].turns # calls[c].turns =>
                /\ calls'[c].prompt = calls[c].prompt
                /\ calls'[c].kb_queries =
                      calls[c].kb_queries + (IF calls'[c].last_turn.queried THEN 1 ELSE 0)]_vars

\* a turn of blank text in a call with KB: one query with that text, answered
\* with one snippet, one message added
OneQueryPerTurnWitness ==
    /\ calls[1].turns = 1 /\ calls[1].kb_enabled
    /\ calls[1].last_turn.query = JsonStr(<<" ">>)
    /\ calls[1].last_turn.outcome = KBResponse(200, "map", "list", <<"t1">>)
    /\ calls[1].last_turn.messages = 1
    /\ calls[1].kb_queries = 2

\* a turn without text in a call with KB: no query
NoQueryWithoutTextWitness ==
    /\ calls[1].turns = 1 /\ calls[1].kb_enabled
    /\ calls[1].last_turn.message = TurnMessage("text_content", JsonNull)
    /\ ~calls[1].last_turn.queried /\ calls[1].kb_queries = 1

(***************************************************************************)
(* The construction of the pipeline on its own: every agent config, every  *)
(* outcome of the turn detector and of the session constructor.            *)
(***************************************************************************)
NextPipeline == CreatePipelineWith(1, TurnDetectorOutcomes) \/ StartSession(1)

SpecPipeline == InitPrompt /\ [][NextPipeline]_vars

\* C31: whatever the construction of the turn detector raises, the call does
\* not end with that error: unless the prompt or the session constructor
\* fails, the session is constructed without turn detection and with the VAD,
\* and its start is attempted next.
TurnDetectorFailureNonFatal ==
    \A c \in CallIds :
        /\ calls[c].raised # "turn_detector"
        /\ (calls[c].detector \notin {"none", "loaded"}) =>
              \/ calls[c].pc = "ended" /\ calls[c].raised = "pipeline"
                    /\ calls[c].session = "none"
              \/ /\ calls[c].session = "open"
                 /\ calls[c].turn_detection = NONE /\ calls[c].vad = "silero"
                 /\ \/ calls[c].pc = "start" /\ ENABLED StartSession(c)
                    \/ calls[c].pc = "wait_first" /\ calls[c].session_task = "running"

\* the model files are missing: the session is constructed with the VAD only
\* and its start task was created
TurnDetectorFailureNonFatalWitness ==
    /\ calls[1].detector = "file_not_found"
    /\ calls[1].session = "open" /\ calls[1].turn_detection = NONE
    /\ calls[1].vad = "silero"
    /\ calls[1].session_task = "running"

\* C32: an update of a matched contact record never changes a column of the
\* record (email, phone, first_name, last_name, company_name) that holds a
\* non-empty value.
UpdateFillsOnlyEmptyFields ==
    [][\A i \in DOMAIN contacts :
          \A f \in ContactFields :
              (i \in DOMAIN contacts' /\ Truthy(contacts[i][f])) =>
                  contacts'[i][f] = contacts[i][f]]_vars

(***************************************************************************)
(* One contact-processing task, for every content of the tag keys in the   *)
(* conversation's metadata.                                                *)
(***************************************************************************)
TaggedMetas ==
    {[EmptyMeta EXCEPT !["source"] = src, !["auto_created"] = auto] :
        src \in {MISSING, "voice_call", "web_chat"}, auto \in {MISSING, "True", "False"}}

InitInsert ==
    /\ mergeRun = MergeIdle /\ extractRun = ExtractIdle
    /\ calls = [c \in CallIds |-> IF c = 1 THEN ActiveCall("agent-j", "c1", "A") ELSE IdleCall]
    /\ tasks = <<NewTask(1)>>
    /\ \E meta \in TaggedMetas :
          convMeta = [cv \in ConvIds |-> IF cv = "c1" THEN meta ELSE EmptyMeta]
    /\ convContact = [cv \in ConvIds |-> 0]
    /\ contacts \in CallContacts

SpecInsert == InitInsert /\ [][NextTask]_vars

\* C33: every contact record the call inserted carries source = voice_call
\* and auto_created = true in its metadata, whatever the conversation's
\* metadata held.
InsertedRecordsTagged ==
    \A t \in DOMAIN tasks :
        tasks[t].contact_id # 0 =>
            /\ contacts[tasks[t].contact_id].metadata["source"] = "voice_call"
            /\ contacts[tasks[t].contact_id].metadata["auto_created"] = "True"

\* the place of a section in the fixed order of the prompt
SectionRank(tag) ==
    CASE tag = "identity" -> 1
      [] tag = "base" -> 2
      [] tag \in {"kb", "kb_bare"} -> 3
      [] tag = "multilingual" -> 4
      [] tag \in ContinuitySections -> 5
      [] tag = "contact" -> 6
      [] tag = "spoken" -> 7
Ranks(prompt) == [i \in DOMAIN prompt |-> SectionRank(prompt[i])]
\* the prompt of call c has been composed, or its composition has raised
Composed(c) == calls[c].pc \in {"start", "ended"}
HasSnippet(c) == Truthy(calls[c].initial_kb)

ConfidenceVariants(r) ==
    {[r EXCEPT !.confidence = conf, !.first_name = fn] :
        conf \in ConfidenceValues, fn \in NameValues}

\* C35: the extracted email and phone do not depend on the confidence or on
\* the names of the response: every response that differs from the one
\* returned only in them gives the same email and phone; and an email is
\* accepted exactly when it contains "@".
EmailPhoneIndependentOfConfidence ==
    Returned =>
        LET r == extractRun.outcome.result IN
        /\ \A r2 \in ConfidenceVariants(r) :
              LET e2 == extract_contact_info_llm(LLMOutcome("object", r2)).extracted IN
              e2.email = extractRun.extracted.email /\ e2.phone = extractRun.extracted.phone
        /\ (extractRun.extracted.email # JsonNull) =
              (r.email.kind = "str" /\ \E i \in DOMAIN r.email.chars : r.email.chars[i] = "@")

(***************************************************************************)
(* Teardown under a loop that runs what is ready: the entrypoint's own     *)
(* steps and the end of a cancelled session-start task are not postponed   *)
(* forever; signals, and the end of a running session start, may never     *)
(* come.                                                                   *)
(***************************************************************************)
SpecGreetingFair == SpecGreeting /\ WF_vars(Progress(1))

\* the entrypoint has ended with the session's close invoked
Closed(call) == call.pc = "ended" /\ call.close_calls = 1 /\ call.session = "closed"

\* C36: once the entrypoint is at the wait on the session start and the
\* shutdown or the disconnect signal has fired, the entrypoint eventually
\* ends with the session's close invoked, whatever the session-start task
\* does; and the entrypoint of a call that reached the wait never ends
\* unless one of the two signals has fired.
TeardownLiveness ==
    /\ \A c \in CallIds :
          (calls[c].session_task # "none" /\ Signalled(calls[c])) ~> Closed(calls[c])
    /\ [](\A c \in CallIds :
            (calls[c].pc = "ended" /\ calls[c].session_task # "none") =>
                Signalled(calls[c]))

\* the room disconnected while the session start was still running: the
\* start task was cancelled and the entrypoint ended, closed
TeardownLivenessWitness ==
    /\ Closed(calls[1])
    /\ calls[1].disconnect_future = "done" /\ calls[1].shutdown_future = "cancelled"
    /\ calls[1].session_task = "cancelled"

\* C37: generate_reply is never requested on a session whose close has been
\* invoked.
NoGreetingAfterClose ==
    [][\A c \in CallIds :
          calls'[c].replies # calls[c].replies => calls[c].close_calls = 0]_vars

(***************************************************************************)
(* Calls with and without their identifiers: call 1 runs with or without a *)
(* conversation id, call 2 with or without a company id; items are         *)
(* produced, call 1 is torn down, the contact tasks run.                   *)
(***************************************************************************)
InitAnonymous ==
    /\ mergeRun = MergeIdle /\ extractRun = ExtractIdle
    /\ \E conv \in {NONE, EMPTY, "c1"}, company \in {NONE, EMPTY, "A"} :
          calls = [c \in CallIds |->
                      IF c = 1 THEN ActiveCall("agent-j", conv, "A")
                      ELSE ActiveCall("agent-j", "c2", company)]
    /\ tasks = <<>>
    /\ convMeta = [cv \in ConvIds |-> EmptyMeta]
    /\ convContact = [cv \in ConvIds |-> 0]
    /\ contacts \in CallContacts

NextAnonymous ==
    \/ OnLoop(1) /\ ItemAdded(1, "user", MaxCallItems)
    \/ OnLoop(1) /\ ItemAdded(1, "assistant", MaxCallItems)
    \/ OnLoop(2) /\ ItemAdded(2, "user", MaxCallItems)
    \/ OnLoop(1) /\ Shutdown(1)
    \/ OnLoop(1) /\ RoomDisconnected(1)
    \/ OnLoop(1) /\ WaitSignal(1)
    \/ OnLoop(1) /\ CancelPending(1)
    \/ OnLoop(1) /\ Finally(1, CloseOutcomes)
    \/ OnLoop(1) /\ UpdateConversationStatus(1)
    \/ TaskStep(CallExtractions)

SpecAnonymous == InitAnonymous /\ [][NextAnonymous]_vars

\* C38: a call without a conversation id launches no transcript save, no
\* contact task and no status update, whatever items it produced and whether
\* its session closed; a contact task of a call without a company id issues
\* no request.
NothingWrittenWithoutIds ==
    /\ \A c \in CallIds :
          ~Truthy(calls[c].conversation_id) =>
              /\ calls[c].saves = 0
              /\ TasksOf(c) = {}
              /\ calls[c].status_updates = <<>>
              /\ calls[c].status_requests = <<>>
    /\ \A t \in DOMAIN tasks :
          ~Truthy(CallOf(t).company_id) => tasks[t].did = {}

\* call 1, without a conversation id, produced an item and closed its session
\* with the close event emitted; a contact task of call 2, without a company
\* id, has ended
NothingWrittenWithoutIdsWitness ==
    /\ ~Truthy(calls[1].conversation_id)
    /\ calls[1].items > 0 /\ calls[1].last_item.role = "user"
    /\ calls[1].close_events > 0
    /\ ~Truthy(calls[2].company_id)
    /\ \E t \in DOMAIN tasks : tasks[t].call = 2 /\ tasks[t].pc = "done"

\* the requests a task sends to the contact store
ContactStoreRequests == {"lookup", "fetch_meta", "update", "insert"}
Refused(status) == status \in {"500", "failed"}

\* C39: a task issues a contact-store lookup, update or insert only after
\* the conversation GET and the metadata PATCH both returned 200; a task
\* whose GET or PATCH returned another status or failed has ended, without
\* raising and without a request to the contact store.
ContactStoreAfterBothOk ==
    \A t \in DOMAIN tasks :
        /\ (tasks[t].did \cap ContactStoreRequests # {} \/ tasks[t].pc \in SyncPcs \ {"llm"})
              => tasks[t].conv_status = "200" /\ tasks[t].patch_status = "200"
        /\ (Refused(tasks[t].conv_status) \/ Refused(tasks[t].patch_status))
              => /\ tasks[t].pc = "done"
                 /\ ~tasks[t].llm_raised
                 /\ tasks[t].did \cap (ContactStoreRequests \cup {"link"}) = {}

\* one task ended on a refused PATCH after an accepted GET, another one has
\* written to the contact store
ContactStoreAfterBothOkWitness ==
    \E t, u \in DOMAIN tasks :
        /\ tasks[t].conv_status = "200" /\ Refused(tasks[t].patch_status)
        /\ tasks[u].did \cap {"update", "insert"} # {}

(***************************************************************************)
(* The contact tasks of two calls with every answer to the insert.         *)
(***************************************************************************)
NextLink ==
    \/ \E c \in CallIds : OnLoop(c) /\ ItemAdded(c, "user", MaxTasks)
    \/ \E t \in TaskIds : Runnable(t) /\ TaskStart(t)
    \/ \E t \in TaskIds : Runnable(t) /\ TaskHistory(t)
    \/ \E t \in TaskIds : Runnable(t) /\ TaskExtract(t, CallExtractions)
    \/ \E t \in TaskIds : Runnable(t) /\ TaskConvGet(t)
    \/ \E t \in TaskIds : Runnable(t) /\ TaskPatch(t)
    \/ \E t \in TaskIds : Runnable(t) /\ TaskLookupEmail(t)
    \/ \E t \in TaskIds : Runnable(t) /\ TaskLookupPhone(t)
    \/ \E t \in TaskIds : Runnable(t) /\ TaskFetchMeta(t)
    \/ \E t \in TaskIds : Runnable(t) /\ TaskUpdate(t)
    \/ \E t \in TaskIds : Runnable(t) /\ TaskInsertWith(t, InsertOutcomes)
    \/ \E t \in TaskIds : Runnable(t) /\ TaskLink(t)

SpecLink == InitContacts /\ [][NextLink]_vars

\* C40: a task that matched an existing contact issues no contact_id link;
\* a link follows only an insert that returned the new record, so a
\* conversation's contact_id, when set, names a record that a task of a call
\* of that conversation inserted.
LinkOnlyAfterInsert ==
    /\ \A t \in DOMAIN tasks :
          /\ tasks[t].existing # 0 => "link" \notin tasks[t].did
          /\ "link" \in tasks[t].did =>
                tasks[t].inserted = "row" /\ tasks[t].contact_id \in DOMAIN contacts
    /\ \A cv \in ConvIds :
          convContact[cv] # 0 =>
              /\ convContact[cv] \in DOMAIN contacts
              /\ \E t \in DOMAIN tasks :
                    /\ CallOf(t).conversation_id = cv
                    /\ tasks[t].inserted = "row"
                    /\ tasks[t].contact_id = convContact[cv]

\* a conversation is linked to the record one task inserted, and another
\* task matched that record and has updated it
LinkOnlyAfterInsertWitness ==
    \E t, u \in DOMAIN tasks :
        /\ convContact[CallOf(t).conversation_id] = tasks[t].contact_id
        /\ tasks[t].contact_id # 0
        /\ tasks[u].existing = tasks[t].contact_id
        /\ "update" \in tasks[u].did /\ tasks[u].pc = "done"

====
